---- MODULE Spec2Model ----
(***************************************************************************)
(* Model of the core OBD helpers (request builders, ELM327 line parsing,   *)
(* PID and DTC decoders).  Every exported helper is a synchronous function *)
(* of its arguments; the state machine is a caller that invokes one helper *)
(* on one input, observes the returned value and returns to idle.  The     *)
(* one piece of module-level state a helper reads, the exported table     *)
(* pidDecoders, is a variable, and a second specification lets several    *)
(* callers use the helpers at the same time.  The adapter transport, with  *)
(* its shared receive buffer, and the reader udsReadSafe that drives it    *)
(* are processes of their own.                                             *)
(*                                                                         *)
(* Text is a sequence of one-character strings, so that case conversion,   *)
(* padding, number formatting and regular-expression matching are modelled *)
(* by what they do to the characters.  A JavaScript number that results    *)
(* from a division is the exact rational [num, den].                       *)
(***************************************************************************)
EXTENDS Integers, Sequences, FiniteSets, TLC

VARIABLES pc, fn, arg, ret, calls, pidDecoders, transport, sends, uds

\* the adapter connection, the send calls in flight on it, and the run of
\* udsReadSafe
ioVars == <<transport, sends, uds>>

vars == <<pc, fn, arg, ret, calls, pidDecoders, ioVars>>

\* -------------------------------------------------------------------------
\* Bounds of the explored inputs
\* -------------------------------------------------------------------------
\* longest sampled byte sequence handed to decodeDtcs
MaxDtcLen == 6
\* longest sampled data frame handed to decode
MaxDataLen == 3
\* most pieces concatenated into one generated line
MaxFrags == 3
\* most lines in one call of parseElmLines
MaxLines == 2
\* most bytes inserted into a prefix of the sample VIN frame
MaxVinInserts == 1
\* most complete 8-byte groups in one Mode 06 payload
MaxRecords == 2
\* longest sampled data of a UDS ReadDataByIdentifier response
MaxUdsLen == 4
\* longest PID text handed to a request builder
MaxPidLen == 2
\* longest DID text handed to udsBuildReadDid
MaxDidLen == 4
\* longest data carried by a synthetic positive response
MaxRoundLen == 2
\* longest generated raw line handed to extractCanIdFromRawLine
MaxCanIdLen == 5
\* most pieces of adapter output on their way to the buffer
MaxQueued == 4
\* data bytes of a Response given to the convenience helpers
MaxRespLen == 2
\* bytes of a sampled readiness frame
MaxReadinessLen == 5
\* callers that use the helpers at the same time
NumCallers == 2

Byte == 0 .. 255

None == "none"

\* -------------------------------------------------------------------------
\* Generic sequence helpers
\* -------------------------------------------------------------------------
\* all sequences over S of length lo..hi
SeqsOf(S, lo, hi) == UNION { [1 .. n -> S] : n \in lo .. hi }

\* Array.prototype.slice(from) with a 0-based start index
SliceFrom(s, from) == IF from >= Len(s) THEN << >> ELSE SubSeq(s, from + 1, Len(s))

\* -------------------------------------------------------------------------
\* JavaScript integer operators on the operands the helpers use
\* -------------------------------------------------------------------------
RECURSIVE Pow2(_)
Pow2(n) == IF n = 0 THEN 1 ELSE 2 * Pow2(n - 1)

\* a & b for non-negative operands
RECURSIVE BitAnd(_, _)
BitAnd(a, b) ==
  IF a = 0 \/ b = 0 THEN 0
  ELSE 2 * BitAnd(a \div 2, b \div 2) + (IF a % 2 = 1 /\ b % 2 = 1 THEN 1 ELSE 0)

\* a << n for 0 < n < 32: the low 32 - n bits of a move up, and bit 31 of the
\* result is its sign
Shl(a, n) ==
  LET low == a % Pow2(32 - n)
  IN  IF low >= Pow2(31 - n) THEN (low - Pow2(32 - n)) * Pow2(n) ELSE low * Pow2(n)

\* a >>> n for a non-negative 32-bit operand
Shr(a, n) == a \div Pow2(n)

\* -------------------------------------------------------------------------
\* Number formatting
\* -------------------------------------------------------------------------
DecDigits == <<"0", "1", "2", "3", "4", "5", "6", "7", "8", "9">>
HexLower == <<"0", "1", "2", "3", "4", "5", "6", "7", "8", "9",
              "a", "b", "c", "d", "e", "f">>
HexUpper == <<"0", "1", "2", "3", "4", "5", "6", "7", "8", "9",
              "A", "B", "C", "D", "E", "F">>

\* String(n) / template interpolation of a 32-bit integer: decimal digits, with
\* a leading minus sign for a negative number (the magnitude of -2^31 is never
\* formed as a number)
RECURSIVE ToDec(_)
ToDec(n) ==
  IF n < 0
  THEN LET last == (10 - (n % 10)) % 10
           rest == -((n + last) \div 10)
       IN  <<"-">> \o (IF rest = 0 THEN << >> ELSE ToDec(rest)) \o <<DecDigits[last + 1]>>
  ELSE IF n < 10 THEN <<DecDigits[n + 1]>>
  ELSE ToDec(n \div 10) \o <<DecDigits[(n % 10) + 1]>>

\* -------------------------------------------------------------------------
\* DTC decoding
\* -------------------------------------------------------------------------
DTC_LETTERS == <<"P", "C", "B", "U">>

\* decodeDtcs with the first digit taken from the whole high nibble (type bits
\* not masked off)
DtcCodeUnmaskedDigit(A, B) ==
  <<DTC_LETTERS[Shr(BitAnd(A, 192), 6) + 1]>>
    \o ToDec(Shr(A, 4)) \o ToDec(BitAnd(A, 15))
    \o ToDec(Shr(BitAnd(B, 240), 4)) \o ToDec(BitAnd(B, 15))

\* decodeDtcs with the letter index read from bits 6..5 instead of 7..6
DtcCodeShiftedLetter(A, B) ==
  <<DTC_LETTERS[Shr(BitAnd(A, 96), 5) + 1]>>
    \o ToDec(Shr(BitAnd(A, 48), 4)) \o ToDec(BitAnd(A, 15))
    \o ToDec(Shr(BitAnd(B, 240), 4)) \o ToDec(BitAnd(B, 15))

\* the body of the loop of decodeDtcs for one pair A, B
DtcCode(A, B) ==
  LET typeIdx == Shr(BitAnd(A, 192), 6)
      letter == DTC_LETTERS[typeIdx + 1]
      d1 == Shr(BitAnd(A, 48), 4)
      d2 == BitAnd(A, 15)
      d3 == Shr(BitAnd(B, 240), 4)
      d4 == BitAnd(B, 15)
  IN  <<letter>> \o ToDec(d1) \o ToDec(d2) \o ToDec(d3) \o ToDec(d4)

\* decodeDtcs without the break on the 00 00 pair
DtcStopNoBreak(bytes, i) == ~(i + 1 < Len(bytes))

\* the loop condition and the break of decodeDtcs at 0-based index i
DtcStop(bytes, i) ==
  \/ ~(i + 1 < Len(bytes))
  \/ (bytes[i + 1] = 0 /\ bytes[i + 2] = 0)

RECURSIVE DtcLoop(_, _)
DtcLoop(bytes, i) ==
  IF DtcStop(bytes, i) THEN << >>
  ELSE <<DtcCode(bytes[i + 1], bytes[i + 2])>> \o DtcLoop(bytes, i + 2)

decodeDtcs(bytes) == DtcLoop(bytes, 0)

\* -------------------------------------------------------------------------
\* Inputs of decodeDtcs: every byte pair, and longer sampled sequences
\* -------------------------------------------------------------------------
DtcSample == {0, 1, 36, 99}

DtcInputs == SeqsOf(Byte, 2, 2) \cup SeqsOf(DtcSample, 0, MaxDtcLen)

\* -------------------------------------------------------------------------
\* Text helpers
\* -------------------------------------------------------------------------
LowerAlpha == <<"a", "b", "c", "d", "e", "f", "g", "h", "i", "j", "k", "l", "m",
                "n", "o", "p", "q", "r", "s", "t", "u", "v", "w", "x", "y", "z">>
UpperAlpha == <<"A", "B", "C", "D", "E", "F", "G", "H", "I", "J", "K", "L", "M",
                "N", "O", "P", "Q", "R", "S", "T", "U", "V", "W", "X", "Y", "Z">>

\* 1-based position of c in s, 0 when absent
IndexIn(s, c) ==
  IF \E i \in DOMAIN s : s[i] = c THEN CHOOSE i \in DOMAIN s : s[i] = c ELSE 0

\* the upper-case letter of each lower-case letter
UpperOf == [c \in { LowerAlpha[i] : i \in DOMAIN LowerAlpha } |-> UpperAlpha[IndexIn(LowerAlpha, c)]]

UpperChar(c) == IF c \in DOMAIN UpperOf THEN UpperOf[c] ELSE c

\* String.prototype.toUpperCase
ToUpperCase(s) == [i \in DOMAIN s |-> UpperChar(s[i])]

\* -------------------------------------------------------------------------
\* JavaScript numbers produced by a division, and Math.round
\* -------------------------------------------------------------------------
\* n / d, kept exact
JsDiv(n, d) == [num |-> n, den |-> d]

\* Math.floor in the place of Math.round
MathRoundAsFloor(n, d) == n \div d

\* Math.round of an integer quotient n / d (d > 0): floor(n/d + 1/2)
MathRound(n, d) == (2 * n + d) \div (2 * d)

\* d[i] (0-based): the element, or undefined (the empty option)
At(d, i) == IF i < Len(d) THEN <<d[i + 1]>> ELSE << >>

\* x ?? dflt
Nullish(x, dflt) == IF x = << >> THEN dflt ELSE x[1]

\* -------------------------------------------------------------------------
\* PID decoders (Mode 01)
\* -------------------------------------------------------------------------
K010C == <<"0", "1", "0", "C">>
K010D == <<"0", "1", "0", "D">>
K0105 == <<"0", "1", "0", "5">>
K0110 == <<"0", "1", "1", "0">>
K010F == <<"0", "1", "0", "F">>
K010B == <<"0", "1", "0", "B">>
K0111 == <<"0", "1", "1", "1">>
K0106 == <<"0", "1", "0", "6">>
K0107 == <<"0", "1", "0", "7">>

\* the keys of the pidDecoders table
DecoderKeys == {K010C, K010D, K0105, K0110, K010F, K010B, K0111, K0106, K0107}

\* the two bytes combined in the wrong order
WordSwapped(a, b) == Shl(b, 8) + a

\* (a << 8) + b
Word(a, b) == Shl(a, 8) + b

Dec010C(d) ==
  LET a == Nullish(At(d, 0), 0)
      b == Nullish(At(d, 1), 0)
  IN  [rpm |-> JsDiv(Word(a, b), 4)]

Dec010D(d) == [speed_kph |-> Nullish(At(d, 0), 0)]

Dec0105(d) == [coolant_c |-> Nullish(At(d, 0), 0) - 40]

Dec0110(d) ==
  LET a == Nullish(At(d, 0), 0)
      b == Nullish(At(d, 1), 0)
  IN  [maf_gps |-> JsDiv(Word(a, b), 100)]

Dec010F(d) == [iat_c |-> Nullish(At(d, 0), 0) - 40]

Dec010B(d) == [map_kpa |-> Nullish(At(d, 0), 0)]

Dec0111(d) == [throttle_pct |-> JsDiv(MathRound(Nullish(At(d, 0), 0) * 10000, 255), 100)]

Dec0106(d) ==
  [stft1_pct |-> JsDiv(MathRound((Nullish(At(d, 0), 0) - 128) * 10000, 128), 100)]

Dec0107(d) ==
  [ltft1_pct |-> JsDiv(MathRound((Nullish(At(d, 0), 0) - 128) * 10000, 128), 100)]

\* pidDecoders[key](d) for a key of the table
PidDecoder(key, d) ==
  CASE key = K010C -> Dec010C(d)
    [] key = K010D -> Dec010D(d)
    [] key = K0105 -> Dec0105(d)
    [] key = K0110 -> Dec0110(d)
    [] key = K010F -> Dec010F(d)
    [] key = K010B -> Dec010B(d)
    [] key = K0111 -> Dec0111(d)
    [] key = K0106 -> Dec0106(d)
    [] key = K0107 -> Dec0107(d)

\* decode looking the key up as given, without upper-casing it
DecodeCaseSensitive(servicePid, dataBytes) ==
  IF servicePid \in DecoderKeys THEN PidDecoder(servicePid, dataBytes)
  ELSE [raw |-> dataBytes]

\* decode falling back to raw for a frame shorter than two bytes
DecodeRawWhenShort(servicePid, dataBytes) ==
  IF ToUpperCase(servicePid) \in DecoderKeys /\ Len(dataBytes) >= 2
  THEN PidDecoder(ToUpperCase(servicePid), dataBytes)
  ELSE [raw |-> dataBytes]

decode(servicePid, dataBytes) ==
  LET key == ToUpperCase(servicePid)
  IN  IF key \in DecoderKeys THEN PidDecoder(key, dataBytes) ELSE [raw |-> dataBytes]

\* -------------------------------------------------------------------------
\* Inputs of decode: every frame of at most two bytes, longer sampled frames
\* -------------------------------------------------------------------------
DataSample == {0, 26, 248}

DataInputs == SeqsOf(Byte, 0, 2) \cup SeqsOf(DataSample, 3, MaxDataLen)

\* the documented keys, one of them in lower case, and two keys outside the table
KeyInputs == DecoderKeys \cup {<<"0", "1", "0", "c">>, <<"0", "1", "0", "4">>, <<"0", "9", "0", "2">>}

\* -------------------------------------------------------------------------
\* Text scanning used by the regular expressions of the line parser
\* -------------------------------------------------------------------------
\* the class \s restricted to the characters of the explored lines
IsSpace(c) == c \in {" ", "\t", "\r", "\n"}

\* the value of each hexadecimal digit character, of either case
HexValueOf ==
  [c \in { HexUpper[i] : i \in DOMAIN HexUpper } \cup { HexLower[i] : i \in DOMAIN HexLower } |->
     IF IndexIn(HexUpper, c) > 0 THEN IndexIn(HexUpper, c) - 1 ELSE IndexIn(HexLower, c) - 1]

\* the class [0-9A-Fa-f]
IsHexChar(c) == c \in DOMAIN HexValueOf

\* the text after the first n characters
Drop(s, n) == IF n >= Len(s) THEN << >> ELSE SubSeq(s, n + 1, Len(s))

\* whether the literal w (upper case) matches s at position i, ignoring case
MatchesWordAt(s, i, w) ==
  /\ i + Len(w) - 1 <= Len(s)
  /\ \A k \in 1 .. Len(w) : UpperChar(s[i + k - 1]) = w[k]

\* an optional "." at position i: the number of characters it takes
OptDot(s, i) == IF i <= Len(s) /\ s[i] = "." THEN 1 ELSE 0

\* the length of the run of \s characters of s that starts at position i
RECURSIVE SpaceRun(_, _)
SpaceRun(s, i) == IF i <= Len(s) /\ IsSpace(s[i]) THEN 1 + SpaceRun(s, i + 1) ELSE 0

W_SEARCHING == <<"S", "E", "A", "R", "C", "H", "I", "N", "G">>
W_BUS == <<"B", "U", "S">>
W_INIT == <<"I", "N", "I", "T">>
W_STOPPED == <<"S", "T", "O", "P", "P", "E", "D">>

\* the length of the match of the pattern at position i of s, 0 for no match
MatchLen(pat, s, i) ==
  CASE pat = "crlf" -> IF s[i] \in {"\r", "\n"} THEN 1 ELSE 0
    [] pat = "prompt" -> IF s[i] = ">" THEN 1 ELSE 0
    [] pat = "searching" ->
         IF MatchesWordAt(s, i, W_SEARCHING) THEN 9 + OptDot(s, i + 9) ELSE 0
    [] pat = "businit" ->
         IF MatchesWordAt(s, i, W_BUS) /\ SpaceRun(s, i + 3) > 0
            /\ MatchesWordAt(s, i + 3 + SpaceRun(s, i + 3), W_INIT)
         THEN 3 + SpaceRun(s, i + 3) + 4 + OptDot(s, i + 3 + SpaceRun(s, i + 3) + 4)
         ELSE 0
    [] pat = "stopped" -> IF MatchesWordAt(s, i, W_STOPPED) THEN 7 ELSE 0
    [] pat = "spaces" -> SpaceRun(s, i)

\* s.replace(/pat/g, " "): matches taken left to right, never overlapping
RECURSIVE ReplaceFrom(_, _, _)
ReplaceFrom(pat, s, i) ==
  IF i > Len(s) THEN << >>
  ELSE IF MatchLen(pat, s, i) > 0
       THEN <<" ">> \o ReplaceFrom(pat, s, i + MatchLen(pat, s, i))
       ELSE <<s[i]>> \o ReplaceFrom(pat, s, i + 1)

ReplaceAll(pat, s) == ReplaceFrom(pat, s, 1)

\* String.prototype.trim
RECURSIVE TrimStart(_)
TrimStart(s) == IF s # << >> /\ IsSpace(s[1]) THEN TrimStart(Tail(s)) ELSE s

RECURSIVE TrimEnd(_)
TrimEnd(s) ==
  IF s # << >> /\ IsSpace(s[Len(s)]) THEN TrimEnd(SubSeq(s, 1, Len(s) - 1)) ELSE s

Trim(s) == TrimEnd(TrimStart(s))

\* -------------------------------------------------------------------------
\* ELM327 line parsing
\* -------------------------------------------------------------------------
cleanLine(line) ==
  Trim(ReplaceAll("spaces",
         ReplaceAll("stopped",
           ReplaceAll("businit",
             ReplaceAll("searching",
               ReplaceAll("prompt",
                 ReplaceAll("crlf", line)))))))

\* line.includes(":")
HasColon(line) == \E i \in DOMAIN line : line[i] = ":"

\* line.split(":").pop(): the text after the last colon
AfterLastColon(line) ==
  LET last == CHOOSE i \in DOMAIN line :
                line[i] = ":" /\ \A j \in DOMAIN line : line[j] = ":" => j <= i
  IN  Drop(line, last)

\* line.includes(":") ? line.split(":").pop() || line : line
AfterColon(line) ==
  IF HasColon(line)
  THEN (IF AfterLastColon(line) # << >> THEN AfterLastColon(line) ELSE line)
  ELSE line

\* text.match(/[0-9A-Fa-f]{2}/g) || []
RECURSIVE HexPairMatches(_, _)
HexPairMatches(text, i) ==
  IF i + 1 > Len(text) THEN << >>
  ELSE IF IsHexChar(text[i]) /\ IsHexChar(text[i + 1])
       THEN <<SubSeq(text, i, i + 1)>> \o HexPairMatches(text, i + 2)
       ELSE HexPairMatches(text, i + 1)

isPositiveResp(t) ==
  /\ Len(t) = 2
  /\ t[1] = "4"
  /\ IndexIn(HexUpper, t[2]) > 0

\* tokens.findIndex(isPositiveResp), 0-based, -1 when there is none
FindFirstPositive(tokens) ==
  IF \E i \in DOMAIN tokens : isPositiveResp(tokens[i])
  THEN (CHOOSE i \in DOMAIN tokens :
          isPositiveResp(tokens[i]) /\ \A j \in 1 .. (i - 1) : ~isPositiveResp(tokens[j])) - 1
  ELSE -1

\* hexPairsFrom without the search for the first positive-response token: the
\* preamble stays in the token list
hexPairsFromWithPreamble(line) ==
  LET afterColon == AfterColon(line)
      matches == HexPairMatches(afterColon, 1)
  IN  [i \in DOMAIN matches |-> ToUpperCase(matches[i])]

hexPairsFrom(line) ==
  LET afterColon == AfterColon(line)
      matches == HexPairMatches(afterColon, 1)
      tokens == [i \in DOMAIN matches |-> ToUpperCase(matches[i])]
      firstIdx == FindFirstPositive(tokens)
  IN  IF firstIdx >= 0 THEN SliceFrom(tokens, firstIdx) ELSE tokens

\* the value of one hexadecimal digit, -1 for any other character
HexDigitVal(c) == IF c \in DOMAIN HexValueOf THEN HexValueOf[c] ELSE -1

\* parseInt(h, 16): the value of the longest prefix of hex digits, as an option
\* that is empty for NaN
RECURSIVE ParseHexPrefix(_, _, _)
ParseHexPrefix(h, i, acc) ==
  IF i > Len(h) \/ HexDigitVal(h[i]) < 0 THEN acc
  ELSE ParseHexPrefix(h, i + 1, 16 * acc + HexDigitVal(h[i]))

ParseInt16(h) ==
  IF h = << >> \/ HexDigitVal(h[1]) < 0 THEN << >> ELSE <<ParseHexPrefix(h, 1, 0)>>

\* hexPairs.map(h => parseInt(h, 16)).filter(n => !Number.isNaN(n))
RECURSIVE toBytes(_)
toBytes(hexPairs) ==
  IF hexPairs = << >> THEN << >>
  ELSE ParseInt16(Head(hexPairs)) \o toBytes(Tail(hexPairs))

\* n.toString(16): a negative number prints as "-" and the digits of -n
RECURSIVE ToHexStr(_)
ToHexStr(n) ==
  IF n < 0 THEN <<"-">> \o ToHexStr(-n)
  ELSE IF n < 16 THEN <<HexLower[n + 1]>> ELSE ToHexStr(n \div 16) \o <<HexLower[(n % 16) + 1]>>

\* String.prototype.padStart(n, c)
RECURSIVE PadStart(_, _, _)
PadStart(s, n, c) == IF Len(s) >= n THEN s ELSE PadStart(<<c>> \o s, n, c)

\* the two digits left in lower case
Hex2LowerCase(n) == PadStart(ToHexStr(n), 2, "0")

\* n.toString(16).toUpperCase().padStart(2, "0")
Hex2(n) == PadStart(ToUpperCase(ToHexStr(n)), 2, "0")

S01 == <<"0", "1">>
S09 == <<"0", "9">>

\* the positive-response test with the threshold 0x04 in the place of 0x40
NotPositiveLowThreshold(resp) == resp < 4

\* the pid branch taken for service 01 only
HasPidServiceOnly01(service) == service = S01

\* the pid branch requiring two bytes instead of three
TooFewForPidOffByOne(bytes) == Len(bytes) < 2

\* the guards of the loop body of parseElmLines
TooFewPairs(pairs) == Len(pairs) < 2
TooFewBytes(bytes) == Len(bytes) < 2
NotPositive(resp) == resp < 64
HasPidService(service) == service = S01 \/ service = S09
TooFewForPid(bytes) == Len(bytes) < 3

\* (resp - 0x40).toString(16).toUpperCase().padStart(2, "0"); an undefined first
\* byte gives NaN, which formats as "NaN"
ServiceOf(first) ==
  IF first = << >> THEN <<"N", "A", "N">> ELSE Hex2(first[1] - 64)

\* one iteration of the loop of parseElmLines: the line is skipped (continue), a
\* response is pushed, or formatting an undefined pid byte throws a TypeError
ParseLine(raw) ==
  LET l == cleanLine(raw)
      pairs == hexPairsFrom(l)
      bytes == toBytes(pairs)
      first == At(bytes, 0)
      service == ServiceOf(first)
  IN  IF l = << >> THEN [kind |-> "skip"]
      ELSE IF TooFewPairs(pairs) THEN [kind |-> "skip"]
      ELSE IF TooFewBytes(bytes) THEN [kind |-> "skip"]
      ELSE IF first # << >> /\ NotPositive(first[1]) THEN [kind |-> "skip"]
      ELSE IF HasPidService(service)
           THEN IF TooFewForPid(bytes) THEN [kind |-> "skip"]
                ELSE IF At(bytes, 1) = << >> THEN [kind |-> "throw"]
                ELSE [kind |-> "push",
                      resp |-> [service |-> service, pid |-> Hex2(bytes[2]),
                                data |-> SliceFrom(bytes, 2), raw |-> l]]
           ELSE [kind |-> "push",
                 resp |-> [service |-> service, data |-> SliceFrom(bytes, 1), raw |-> l]]

\* the loop leaving at the first skipped line (break in the place of continue)
RECURSIVE ParseLoopBreakOnSkip(_, _, _)
ParseLoopBreakOnSkip(lines, i, out) ==
  IF i > Len(lines) THEN [threw |-> FALSE, out |-> out]
  ELSE LET step == ParseLine(lines[i])
       IN  CASE step.kind = "skip" -> [threw |-> FALSE, out |-> out]
             [] step.kind = "push" -> ParseLoopBreakOnSkip(lines, i + 1, Append(out, step.resp))
             [] step.kind = "throw" -> [threw |-> TRUE, out |-> << >>]

\* the loop of parseElmLines from line i on, with the responses pushed so far
RECURSIVE ParseLoop(_, _, _)
ParseLoop(lines, i, out) ==
  IF i > Len(lines) THEN [threw |-> FALSE, out |-> out]
  ELSE LET step == ParseLine(lines[i])
       IN  CASE step.kind = "skip" -> ParseLoop(lines, i + 1, out)
             [] step.kind = "push" -> ParseLoop(lines, i + 1, Append(out, step.resp))
             [] step.kind = "throw" -> [threw |-> TRUE, out |-> << >>]

\* the call parseElmLines(lines): the returned list, or the exception
parseElmLines(lines) == ParseLoop(lines, 1, << >>)

\* -------------------------------------------------------------------------
\* Inputs of parseElmLines
\* -------------------------------------------------------------------------
\* pieces of adapter output, concatenated into lines
LineFrags == {
  <<"4", "1", " ">>,
  <<"4", "9", " ">>,
  <<"4", "3", " ">>,
  <<"0", "C", " ">>,
  <<"1", "A", " ">>,
  <<"7", "F", " ">>,
  <<"4">>,
  <<"0", "c", "3">>,
  <<":">>,
  <<">">>,
  <<"S", "E", "A", "R", "C", "H", "I", "N", "G", ".">>,
  <<"\r", "\n">>,
  <<"g", " ">>
}

\* every concatenation of lo..hi pieces
RECURSIVE FragLines(_)
FragLines(n) ==
  IF n = 0 THEN {<< >>}
  ELSE FragLines(n - 1) \cup { l \o f : l \in FragLines(n - 1), f \in LineFrags }

\* adapter lines quoted by the documentation and the comments of the parser
L_Searching == <<"S", "E", "A", "R", "C", "H", "I", "N", "G", ".", ".", ".">>
L_Rpm == <<"4", "1", " ", "0", "C", " ", "1", "A", " ", "F", "8", " ", ">">>
L_RpmPacked == <<"4", "1", "0", "C", "1", "A", "F", "8">>
L_Negative == <<"7", "F", " ", "0", "1", " ", "1", "2">>
L_Unable == <<"U", "N", "A", "B", "L", "E", " ", "T", "O", " ", "C", "O", "N", "N", "E", "C", "T">>
L_IsoTp == <<"0", "7", "E", "8", " ", "1", "0", " ", "1", "4", " ", "4", "1", " ", "0", "C", " ", "1", "A", " ", "F", "8">>
L_Continuation == <<"1", ":", " ", "4", "9", " ", "0", "2", " ", "0", "1", " ", "5", "7">>
L_BusInit == <<"B", "U", "S", " ", "I", "N", "I", "T", ".", ".", ".">>
L_Dtc == <<"4", "3", " ", "0", "1", " ", "0", "1", " ", "0", "0", " ", "0", "0">>
L_Prompt == <<">">>
L_Echo == <<"0", "1", "0", "C">>
L_NoData == <<"N", "O", " ", "D", "A", "T", "A">>
L_BusStoppedInit == <<"B", "U", "S", " ", "S", "T", "O", "P", "P", "E", "D", " ", "I", "N", "I", "T">>

CorpusLines == {L_Searching, L_Rpm, L_RpmPacked, L_Negative, L_Unable, L_IsoTp,
                L_Continuation, L_BusInit, L_Dtc, L_Prompt, L_Echo, L_NoData,
                L_BusStoppedInit}

\* one-line calls over every generated line, longer calls over the corpus
LineListInputs ==
  { <<l>> : l \in FragLines(MaxFrags) } \cup SeqsOf(CorpusLines, 0, MaxLines)

\* -------------------------------------------------------------------------
\* The caller
\* -------------------------------------------------------------------------
\* the two overlapping ticks of the dashboard's polling interval
Senders == {"tickA", "tickB"}

\* a tick that has no send in flight
IdleSend == [pc |-> "idle", cmd |-> << >>, lines |-> << >>, timedOut |-> FALSE]

\* a connected transport: nothing buffered, nothing on its way from the adapter
ConnectedTransport == [buffer |-> << >>, connected |-> TRUE, socket |-> << >>]

\* udsReadSafe not called yet
UdsNotCalled ==
  [pc |-> "idle", address |-> << >>, sent |-> << >>, replies |-> << >>, out |-> << >>]

\* the concurrent callers (parallel polling loops)
Callers == 1 .. NumCallers

\* a caller that has no call in progress
IdleCall == [pc |-> "idle", fn |-> None, arg |-> None, ret |-> None]

\* the exported table pidDecoders as the module is loaded: each of the nine keys
\* bound to its own decoder
InitialDecoders == [k \in DecoderKeys |-> k]

Init ==
  /\ pc = "idle"
  /\ fn = None
  /\ arg = None
  /\ ret = None
  /\ calls = [c \in Callers |-> IdleCall]
  /\ pidDecoders = InitialDecoders
  /\ transport = ConnectedTransport
  /\ sends = [s \in Senders |-> IdleSend]
  /\ uds = UdsNotCalled

CallDecodeDtcs ==
  /\ pc = "idle"
  /\ \E bytes \in DtcInputs :
       /\ fn' = "decodeDtcs"
       /\ arg' = bytes
       /\ ret' = decodeDtcs(bytes)
  /\ pc' = "returned"
  /\ UNCHANGED <<calls, pidDecoders, ioVars>>

Return ==
  /\ pc = "returned"
  /\ pc' = "idle"
  /\ fn' = None
  /\ arg' = None
  /\ ret' = None
  /\ UNCHANGED <<calls, pidDecoders, ioVars>>

CallDecode ==
  /\ pc = "idle"
  /\ \E key \in KeyInputs, data \in DataInputs :
       /\ fn' = "decode"
       /\ arg' = [key |-> key, data |-> data]
       /\ ret' = decode(key, data)
  /\ pc' = "returned"
  /\ UNCHANGED <<calls, pidDecoders, ioVars>>

CallParseElmLines ==
  /\ pc = "idle"
  /\ \E lines \in LineListInputs :
       /\ fn' = "parseElmLines"
       /\ arg' = lines
       /\ ret' = parseElmLines(lines)
  /\ pc' = "returned"
  /\ UNCHANGED <<calls, pidDecoders, ioVars>>

NextDtc == CallDecodeDtcs \/ Return

NextParse == CallParseElmLines \/ Return

NextDecode == CallDecode \/ Return

SpecDtc == Init /\ [][NextDtc]_vars

SpecParse == Init /\ [][NextParse]_vars

SpecDecode == Init /\ [][NextDecode]_vars

\* -------------------------------------------------------------------------
\* Properties of decodeDtcs (checked under SpecDtc)
\* -------------------------------------------------------------------------
\* the j-th aligned pair of the argument of the observed decodeDtcs call
DtcPairA(j) == arg[2 * j - 1]
DtcPairB(j) == arg[2 * j]
DtcPairCount == Len(arg) \div 2
DtcZeroPair(j) == DtcPairA(j) = 0 /\ DtcPairB(j) = 0

\* the decimal numeral of a nibble 0..15, as template interpolation prints it
NibbleNumeral(n) == IF n < 10 THEN <<DecDigits[n + 1]>> ELSE <<"1", DecDigits[n - 9]>>

\* C4: every string decodeDtcs emits is exactly 5 characters long, one letter of
\* P, C, B, U followed by 4 decimal digits.
C4_DtcFiveChars ==
  fn = "decodeDtcs" =>
    \A j \in DOMAIN ret :
      /\ Len(ret[j]) = 5
      /\ ret[j][1] \in {"P", "C", "B", "U"}
      /\ \A k \in 2 .. 5 : IndexIn(DecDigits, ret[j][k]) > 0

\* C5: for every emitted pair (A, B) the code is the letter
\* P/C/B/U[(A >> 6) & 3] followed by d1 = (A >> 4) & 3, d2 = A & 0xF,
\* d3 = (B >> 4) & 0xF, d4 = B & 0xF, in that order; a first pair that is not
\* the terminator is emitted.
C5_DtcDigits ==
  fn = "decodeDtcs" =>
    /\ \A j \in DOMAIN ret :
         /\ j <= DtcPairCount
         /\ ret[j] = <<DTC_LETTERS[((DtcPairA(j) \div 64) % 4) + 1]>>
                       \o NibbleNumeral((DtcPairA(j) \div 16) % 4)
                       \o NibbleNumeral(DtcPairA(j) % 16)
                       \o NibbleNumeral((DtcPairB(j) \div 16) % 16)
                       \o NibbleNumeral(DtcPairB(j) % 16)
    /\ (DtcPairCount >= 1 /\ ~DtcZeroPair(1)) => Len(ret) >= 1

C5_Witness ==
  /\ fn = "decodeDtcs"
  /\ arg = <<99, 36>>
  /\ ret = << <<"C", "2", "3", "2", "4">> >>

\* C6 as stated: decodeDtcs([0x24, 0x63]) yields exactly ["C2463"].
C6_Original ==
  (fn = "decodeDtcs" /\ arg = <<36, 99>>) => ret = << <<"C", "2", "4", "6", "3">> >>

\* C6 amended: decodeDtcs([0x24, 0x63]) yields exactly ["P2463"]: the top two
\* bits of 0x24 are 00, the powertrain letter, and the digits are 2, 4, 6, 3.
C6_Amended ==
  (fn = "decodeDtcs" /\ arg = <<36, 99>>) => ret = << <<"P", "2", "4", "6", "3">> >>

C6_Witness ==
  /\ fn = "decodeDtcs"
  /\ arg = <<36, 99>>
  /\ Len(ret) = 1
  /\ ret[1][1] = "P"

\* C7: decodeDtcs emits one code per aligned pair, in input order, up to the
\* first (0x00, 0x00) pair, which is not emitted and ends the output; a trailing
\* unpaired byte is ignored; decodeDtcs([0x01, 0x01, 0x00, 0x00]) = ["P0101"].
C7_DtcTerminator ==
  fn = "decodeDtcs" =>
    LET stops == { j \in 1 .. DtcPairCount : DtcZeroPair(j) }
        emitted == IF stops = {} THEN DtcPairCount
                   ELSE (CHOOSE j \in stops : \A k \in stops : j <= k) - 1
    IN  /\ Len(ret) = emitted
        /\ \A j \in 1 .. emitted :
             j <= Len(ret) /\ ret[j] = DtcCode(DtcPairA(j), DtcPairB(j))
        /\ arg = <<1, 1, 0, 0>> => ret = << <<"P", "0", "1", "0", "1">> >>

C7_Witness ==
  /\ fn = "decodeDtcs"
  /\ arg = <<1, 1, 0, 0, 36, 99>>
  /\ ret = << <<"P", "0", "1", "0", "1">> >>

\* -------------------------------------------------------------------------
\* Properties of decode (checked under SpecDecode)
\* -------------------------------------------------------------------------
\* the value v returned for a division equals the fraction n / d
IsFraction(v, n, d) == v.den > 0 /\ v.num * d = n * v.den

\* k is an integer nearest to n / d, for d > 0
IsNearest(k, n, d) ==
  LET diff == k * d - n IN 2 * (IF diff < 0 THEN -diff ELSE diff) <= d

\* C8: with A, B the first two data bytes, decode gives rpm = (256A + B)/4 for
\* 010C (1726 for 1A F8), maf_gps = (256A + B)/100 for 0110, speed_kph = A for
\* 010D, map_kpa = A for 010B, coolant_c = A - 40 for 0105, iat_c = A - 40 for
\* 010F, and each result has exactly that one field.
C8_UnroundedFormulas ==
  (fn = "decode" /\ Len(arg.data) >= 2) =>
    LET A == arg.data[1]
        B == arg.data[2]
    IN  /\ arg.key = K010C =>
             /\ DOMAIN ret = {"rpm"}
             /\ IsFraction(ret.rpm, 256 * A + B, 4)
             /\ (A = 26 /\ B = 248) => ret.rpm.num = 1726 * ret.rpm.den
        /\ arg.key = K0110 =>
             DOMAIN ret = {"maf_gps"} /\ IsFraction(ret.maf_gps, 256 * A + B, 100)
        /\ arg.key = K010D => DOMAIN ret = {"speed_kph"} /\ ret.speed_kph = A
        /\ arg.key = K010B => DOMAIN ret = {"map_kpa"} /\ ret.map_kpa = A
        /\ arg.key = K0105 => DOMAIN ret = {"coolant_c"} /\ ret.coolant_c = A - 40
        /\ arg.key = K010F => DOMAIN ret = {"iat_c"} /\ ret.iat_c = A - 40

C8_Witness ==
  /\ fn = "decode"
  /\ arg.key = K010C
  /\ arg.data = <<26, 248>>
  /\ ret = [rpm |-> [num |-> 6904, den |-> 4]]

\* a percentage with at most two decimals: an integer count of hundredths
IsHundredths(v) == v.den = 100

\* C9: for every first data byte A, 100 * throttle_pct is the integer nearest
\* to A*10000/255 and 100 * stft1_pct, 100 * ltft1_pct the integer nearest to
\* (A-128)*10000/128; throttle_pct is in [0, 100] with 0 -> 0 and 255 -> 100,
\* the trims are in [-100, 99.22] with 128 -> 0 and 0 -> -100.
C9_Percentages ==
  (fn = "decode" /\ Len(arg.data) >= 1) =>
    LET A == arg.data[1]
        trim(v) ==
          /\ IsHundredths(v)
          /\ IsNearest(v.num, (A - 128) * 10000, 128)
          /\ v.num >= -10000 /\ v.num <= 9922
          /\ A = 128 => v.num = 0
          /\ A = 0 => v.num = -10000
    IN  /\ arg.key = K0111 =>
             /\ DOMAIN ret = {"throttle_pct"}
             /\ IsHundredths(ret.throttle_pct)
             /\ IsNearest(ret.throttle_pct.num, A * 10000, 255)
             /\ ret.throttle_pct.num >= 0 /\ ret.throttle_pct.num <= 10000
             /\ A = 0 => ret.throttle_pct.num = 0
             /\ A = 255 => ret.throttle_pct.num = 10000
        /\ arg.key = K0106 => DOMAIN ret = {"stft1_pct"} /\ trim(ret.stft1_pct)
        /\ arg.key = K0107 => DOMAIN ret = {"ltft1_pct"} /\ trim(ret.ltft1_pct)

C9_Witness ==
  /\ fn = "decode"
  /\ arg.key = K0106
  /\ arg.data = <<255>>
  /\ ret = [stft1_pct |-> [num |-> 9922, den |-> 100]]

\* the data frame extended with zero bytes to two bytes
ZeroExtended(d) ==
  IF Len(d) = 0 THEN <<0, 0>> ELSE IF Len(d) = 1 THEN <<d[1], 0>> ELSE d

\* C10: for every documented key, decode of an empty frame returns the value
\* for A = 0, B = 0 (rpm 0, coolant_c -40, stft1_pct -100) and decode of a
\* one-byte frame the value for B = 0; decode does not fall back or fail.
C10_ZeroExtension ==
  (fn = "decode" /\ arg.key \in DecoderKeys /\ Len(arg.data) < 2) =>
    /\ "raw" \notin DOMAIN ret
    /\ ret = decode(arg.key, ZeroExtended(arg.data))
    /\ (arg.key = K010C /\ arg.data = << >>) =>
         (DOMAIN ret = {"rpm"} /\ ret.rpm.den > 0 /\ ret.rpm.num = 0)
    /\ (arg.key = K0105 /\ arg.data = << >>) => ret = [coolant_c |-> -40]
    /\ (arg.key = K0106 /\ arg.data = << >>) =>
         (DOMAIN ret = {"stft1_pct"} /\ IsFraction(ret.stft1_pct, -100, 1))

C10_Witness ==
  /\ fn = "decode"
  /\ arg.key = K0110
  /\ arg.data = <<26>>
  /\ ret = [maf_gps |-> [num |-> 6656, den |-> 100]]

\* -------------------------------------------------------------------------
\* Properties of parseElmLines (checked under SpecParse)
\* -------------------------------------------------------------------------
\* the sanitized text, the tokens and the byte sequence of each input line
Tokenized(lines) ==
  [i \in DOMAIN lines |->
     LET clean == cleanLine(lines[i])
         pairs == hexPairsFrom(clean)
     IN  [clean |-> clean, pairs |-> pairs, bytes |-> toBytes(pairs)]]

\* s is the 2-digit zero-padded upper-case hexadecimal numeral of n
IsHex2Of(s, n) ==
  /\ Len(s) = 2
  /\ IndexIn(HexUpper, s[1]) > 0
  /\ IndexIn(HexUpper, s[2]) > 0
  /\ 16 * (IndexIn(HexUpper, s[1]) - 1) + (IndexIn(HexUpper, s[2]) - 1) = n

\* the subsequence of the elements that satisfy keep
Where(elems, keep(_)) ==
  LET idx == { i \in DOMAIN elems : keep(elems[i]) }
  IN  [k \in 1 .. Cardinality(idx) |->
         elems[CHOOSE i \in idx : Cardinality({ j \in idx : j <= i }) = k]]

\* a line whose bytes b0, b1, .. bn have n >= 1 and b0 >= 0x40
IsFrameLine(t) == Len(t.bytes) >= 2 /\ t.bytes[1] >= 64

\* the service number of a frame line is 01 or 09
HasPidByte(t) == t.bytes[1] - 64 \in {1, 9}

\* a frame line of service 01 or 09 without a byte b2
IsPidOnly(t) == HasPidByte(t) /\ Len(t.bytes) < 3

\* the response r is the one the claim describes for the frame line
IsResponseOf(r, t) ==
  /\ IsHex2Of(r.service, t.bytes[1] - 64)
  /\ IF HasPidByte(t)
     THEN /\ "pid" \in DOMAIN r
          /\ IsHex2Of(r.pid, t.bytes[2])
          /\ r.data = SubSeq(t.bytes, 3, Len(t.bytes))
     ELSE /\ "pid" \notin DOMAIN r
          /\ r.data = SubSeq(t.bytes, 2, Len(t.bytes))

\* C1: a line whose byte sequence b0..bn has n >= 1 and b0 >= 0x40 gives exactly
\* one Response with service = hex(b0 - 0x40); for service 01 or 09 the pid is
\* hex(b1) and the data b2..bn (no Response without b2), otherwise there is no
\* pid and the data is b1..bn; the Responses of a call are those of its frame
\* lines, in order.  ["SEARCHING...", "41 0C 1A F8 >"] gives exactly one
\* Response: service 01, pid 0C, data 1A F8.
C1_FrameLineResponse ==
  fn = "parseElmLines" =>
    LET toks == Tokenized(arg)
        emitting(t) == IsFrameLine(t) /\ ~IsPidOnly(t)
        kept == Where(toks, emitting)
    IN  /\ ~ret.threw
        /\ Len(ret.out) = Len(kept)
        /\ \A i \in DOMAIN kept :
             i <= Len(ret.out) /\ IsResponseOf(ret.out[i], kept[i])
        /\ arg = <<L_Searching, L_Rpm>> =>
             /\ Len(ret.out) = 1
             /\ ret.out[1].service = <<"0", "1">>
             /\ "pid" \in DOMAIN ret.out[1]
             /\ ret.out[1].pid = <<"0", "C">>
             /\ ret.out[1].data = <<26, 248>>

C1_Witness ==
  /\ fn = "parseElmLines"
  /\ arg = <<L_Continuation, L_Dtc>>
  /\ Len(ret.out) = 2
  /\ ret.out[1].pid = <<"0", "2">>
  /\ ret.out[2].data = <<1, 1, 0, 0>>

\* C2: in every Response returned, pid is present exactly when service is 01
\* or 09, a present pid comes with at least one data byte, and service is the
\* 2-character upper-case hex of (first byte - 0x40) of the line it was built
\* from.
C2_ResponseInvariant ==
  fn = "parseElmLines" =>
    \A i \in DOMAIN ret.out :
      LET r == ret.out[i]
          b == toBytes(hexPairsFrom(r.raw))
      IN  /\ ("pid" \in DOMAIN r) <=> (r.service \in {<<"0", "1">>, <<"0", "9">>})
          /\ ("pid" \in DOMAIN r) => Len(r.data) >= 1
          /\ Len(b) >= 1
          /\ IsHex2Of(r.service, b[1] - 64)

C2_Witness ==
  /\ fn = "parseElmLines"
  /\ arg = <<L_Rpm, L_Negative>>
  /\ Len(ret.out) = 2
  /\ "pid" \in DOMAIN ret.out[1]
  /\ "pid" \notin DOMAIN ret.out[2]

\* a line that sanitizes to empty, has fewer than 2 hex-pair tokens, or whose
\* first byte is below 0x40
IsRejectedLine(t) ==
  \/ t.clean = << >>
  \/ Len(t.pairs) < 2
  \/ t.bytes[1] < 64

\* C3: parseElmLines never raises; a line that sanitizes to empty, has fewer
\* than 2 hex-pair tokens or starts with a byte < 0x40 contributes no Response,
\* and the other lines of the call are still processed, in order.
C3_FailSoft ==
  fn = "parseElmLines" =>
    LET toks == Tokenized(arg)
        processed(t) == ~IsRejectedLine(t) /\ ~IsPidOnly(t)
        kept == Where(toks, processed)
    IN  /\ ~ret.threw
        /\ Len(ret.out) = Len(kept)
        /\ \A i \in DOMAIN kept :
             i <= Len(ret.out) /\ ret.out[i].raw = kept[i].clean
        /\ (\A i \in DOMAIN toks : IsRejectedLine(toks[i])) => ret.out = << >>

C3_Witness ==
  /\ fn = "parseElmLines"
  /\ arg = <<L_Echo, L_Rpm>>
  /\ IsRejectedLine(Tokenized(arg)[1])
  /\ ~ret.threw
  /\ Len(ret.out) = 1
  /\ ret.out[1].raw = cleanLine(L_Rpm)

\* the field each documented key decodes to
FieldOfKey ==
  [k \in DecoderKeys |->
     CASE k = K010C -> "rpm" [] k = K010D -> "speed_kph" [] k = K0105 -> "coolant_c"
       [] k = K0110 -> "maf_gps" [] k = K010F -> "iat_c" [] k = K010B -> "map_kpa"
       [] k = K0111 -> "throttle_pct" [] k = K0106 -> "stft1_pct" [] k = K0107 -> "ltft1_pct"]

\* C11: decode returns a named-field mapping exactly when the upper-cased key is
\* one of the nine documented keys; for every other key the result has the only
\* field raw, holding the data bytes unchanged and in order.
C11_RawFallback ==
  fn = "decode" =>
    IF ToUpperCase(arg.key) \in DecoderKeys
    THEN DOMAIN ret = {FieldOfKey[ToUpperCase(arg.key)]}
    ELSE DOMAIN ret = {"raw"} /\ ret.raw = arg.data

C11_Witness ==
  /\ fn = "decode"
  /\ arg.key = <<"0", "9", "0", "2">>
  /\ arg.data = <<26, 248, 0>>
  /\ ret = [raw |-> <<26, 248, 0>>]

C11_WitnessLowerCase ==
  /\ fn = "decode"
  /\ arg.key = <<"0", "1", "0", "c">>
  /\ DOMAIN ret = {"rpm"}

\* -------------------------------------------------------------------------
\* VIN from Mode 09 PID 02
\* -------------------------------------------------------------------------
\* the character with code 0x60, which a TLA+ string literal cannot hold
Grave == "grave"

\* the characters with codes 0x20 .. 0x7E, in code order
Ascii ==
  <<" ", "!", "\"", "#", "$", "%", "&", "'", "(", ")", "*", "+", ",", "-", ".", "/",
     "0", "1", "2", "3", "4", "5", "6", "7", "8", "9", ":", ";", "<", "=", ">", "?",
     "@", "A", "B", "C", "D", "E", "F", "G", "H", "I", "J", "K", "L", "M", "N", "O",
     "P", "Q", "R", "S", "T", "U", "V", "W", "X", "Y", "Z", "[", "\\", "]", "^", "_",
     Grave, "a", "b", "c", "d", "e", "f", "g", "h", "i", "j", "k", "l", "m", "n", "o",
     "p", "q", "r", "s", "t", "u", "v", "w", "x", "y", "z", "{", "|", "}", "~" >>

\* String.fromCharCode for a printable byte
CharOf(b) == Ascii[b - 31]

\* the printable test with the space excluded
IsPrintableNoSpace(b) == b > 32 /\ b <= 126

\* b >= 0x20 && b <= 0x7e
IsPrintable(b) == b >= 32 /\ b <= 126

RECURSIVE FilterPrintable(_)
\* bytes.filter(printable).map(String.fromCharCode).join("")
FilterPrintable(bytes) ==
  IF bytes = << >> THEN << >>
  ELSE (IF IsPrintable(Head(bytes)) THEN <<CharOf(Head(bytes))>> ELSE << >>)
         \o FilterPrintable(Tail(bytes))

decodeVinFromBytes(bytes) ==
  LET ascii == FilterPrintable(bytes)
  IN  IF Len(ascii) >= 17 THEN SubSeq(ascii, 1, 17) ELSE ascii

\* the bytes of "WVWZZZ1JZXW000001EXTRA"
VinSample == <<87, 86, 87, 90, 90, 90, 49, 74, 90, 88, 87, 48, 48, 48, 48, 48, 49, 69, 88, 84, 82, 65>>

\* bytes at and around the two ends of the printable range
VinJunk == {31, 32, 126, 127}

RECURSIVE WithInserts(_, _)
\* the sequences of S with up to n bytes of VinJunk inserted anywhere
WithInserts(S, n) ==
  IF n = 0 THEN S
  ELSE S \cup WithInserts(UNION { { SubSeq(q, 1, i) \o <<j>> \o SubSeq(q, i + 1, Len(q)) :
                                        i \in 0 .. Len(q), j \in VinJunk } : q \in S }, n - 1)

\* every single byte, and the prefixes of the sample with up to n insertions
VinInputs(n) ==
  SeqsOf(Byte, 1, 1)
    \cup WithInserts({ SubSeq(VinSample, 1, k) : k \in 0 .. Len(VinSample) }, n)

CallDecodeVin ==
  /\ pc = "idle"
  /\ \E bytes \in VinInputs(MaxVinInserts) :
       /\ fn' = "decodeVinFromBytes"
       /\ arg' = bytes
       /\ ret' = decodeVinFromBytes(bytes)
  /\ pc' = "returned"
  /\ UNCHANGED <<calls, pidDecoders, ioVars>>

NextVin == CallDecodeVin \/ Return

SpecVin == Init /\ [][NextVin]_vars

\* the smaller of two numbers
Min(a, b) == IF a <= b THEN a ELSE b

\* the bytes of a sequence that lie in 0x20 .. 0x7E, in input order
PrintableOf(bytes) == Where(bytes, LAMBDA b : b >= 32 /\ b <= 126)

\* C12: decodeVinFromBytes returns the first min(17, k) characters of the k
\* bytes in 0x20..0x7E kept in input order; the result never exceeds 17
\* characters and holds no non-printable byte; the bytes of
\* "WVWZZZ1JZXW000001EXTRA" give exactly the first 17 characters.
C12_VinPrefix ==
  fn = "decodeVinFromBytes" =>
    LET kept == PrintableOf(arg)
    IN  /\ Len(ret) = Min(17, Len(kept))
        /\ Len(ret) <= 17
        /\ \A i \in 1 .. Len(ret) : ret[i] = Ascii[kept[i] - 31]
        /\ (arg = VinSample =>
              ret = <<"W", "V", "W", "Z", "Z", "Z", "1", "J", "Z", "X", "W",
                      "0", "0", "0", "0", "0", "1">>)

C12_Witness ==
  /\ fn = "decodeVinFromBytes"
  /\ arg = VinSample
  /\ Len(ret) = 17

C12_WitnessDropped ==
  /\ fn = "decodeVinFromBytes"
  /\ \E i \in DOMAIN arg : arg[i] = 127
  /\ Len(arg) = 18
  /\ Len(ret) = 17

\* -------------------------------------------------------------------------
\* Mode 06 (on-board monitoring) records
\* -------------------------------------------------------------------------
\* the word read low byte first
Mode06WordLowFirst(hi, lo) == Shl(lo, 8) + hi

\* (bytes[i] << 8) + bytes[i + 1]
Mode06Word(hi, lo) == Shl(hi, 8) + lo

\* the record pushed for the group that starts at offset i (from 0)
Mode06RecordAt(bytes, i) ==
  LET tid   == bytes[i + 1]
      cid   == bytes[i + 2]
      value == Mode06Word(bytes[i + 3], bytes[i + 4])
      min   == Mode06Word(bytes[i + 5], bytes[i + 6])
      max   == Mode06Word(bytes[i + 7], bytes[i + 8])
  IN  [tid |-> tid, cid |-> cid, value |-> value, min |-> min, max |-> max,
       pass |-> (value >= min /\ value <= max)]

RECURSIVE Mode06Loop(_, _, _)
\* for (let i = 0; i + 7 < bytes.length; i += 8) out.push(..)
Mode06Loop(bytes, i, out) ==
  IF i + 7 < Len(bytes)
  THEN Mode06Loop(bytes, i + 8, Append(out, Mode06RecordAt(bytes, i)))
  ELSE out

decodeMode06Records(bytes) == Mode06Loop(bytes, 0, << >>)

\* words 0x00FF, 0x0100 and 0xFFFF as byte pairs
Mode06Words == { <<0, 255>>, <<1, 0>>, <<255, 255>> }

\* complete groups: every ordering of the three words, and other test ids
Mode06Groups ==
  { <<1, 2>> \o v \o lo \o hi : v \in Mode06Words, lo \in Mode06Words, hi \in Mode06Words }
    \cup { <<t, c, 0, 7, 0, 0, 0, 9>> : t \in {0, 255}, c \in {0, 255} }

\* incomplete trailing groups
Mode06Tails == { << >>, <<9>>, <<9, 8, 7, 6, 5, 4, 3>> }

RECURSIVE Mode06Payloads(_)
\* payloads of exactly n complete groups
Mode06Payloads(n) ==
  IF n = 0 THEN { << >> }
  ELSE { g \o q : g \in Mode06Groups, q \in Mode06Payloads(n - 1) }

\* up to n complete groups, then an incomplete one
Mode06Inputs(n) ==
  { q \o t : q \in UNION { Mode06Payloads(k) : k \in 0 .. n }, t \in Mode06Tails }

CallDecodeMode06 ==
  /\ pc = "idle"
  /\ \E bytes \in Mode06Inputs(MaxRecords) :
       /\ fn' = "decodeMode06Records"
       /\ arg' = bytes
       /\ ret' = decodeMode06Records(bytes)
  /\ pc' = "returned"
  /\ UNCHANGED <<calls, pidDecoders, ioVars>>

NextMode06 == CallDecodeMode06 \/ Return

SpecMode06 == Init /\ [][NextMode06]_vars

\* the big-endian 16-bit number held in bytes k and k + 1 of a sequence
BigEndian16(bytes, k) == bytes[k] * 256 + bytes[k + 1]

\* C13: for a byte sequence of length n decodeMode06Records returns floor(n/8)
\* records in input order; record j is read from bytes 8j..8j+7 as tid, cid and
\* big-endian 16-bit value, min, max (each in 0..65535), its pass flag is true
\* exactly when min <= value <= max, and a trailing partial group is dropped.
C13_Mode06Records ==
  fn = "decodeMode06Records" =>
    /\ Len(ret) = Len(arg) \div 8
    /\ \A j \in 1 .. Len(ret) :
         LET o == 8 * (j - 1)
             r == ret[j]
         IN  /\ DOMAIN r = {"tid", "cid", "value", "min", "max", "pass"}
             /\ r.tid = arg[o + 1]
             /\ r.cid = arg[o + 2]
             /\ r.value = BigEndian16(arg, o + 3)
             /\ r.min = BigEndian16(arg, o + 5)
             /\ r.max = BigEndian16(arg, o + 7)
             /\ {r.value, r.min, r.max} \subseteq 0 .. 65535
             /\ r.pass = (r.min <= r.value /\ r.value <= r.max)

C13_Witness ==
  /\ fn = "decodeMode06Records"
  /\ Len(arg) = 23
  /\ Len(ret) = 2
  /\ ret[1].pass
  /\ ~ret[2].pass
  /\ ret[2].value = 256
  /\ ret[2].max = 255

\* -------------------------------------------------------------------------
\* UDS ReadDataByIdentifier (0x22)
\* -------------------------------------------------------------------------
\* the identifier in hexadecimal without the padding
UdsHexUnpadded(did) == ToUpperCase(ToHexStr(did))

\* did.toString(16).toUpperCase().padStart(4, "0")
UdsHex(did) == PadStart(ToUpperCase(ToHexStr(did)), 4, "0")

\* data.map(b => printable ? String.fromCharCode(b) : "").join("").trim()
UdsText(data) == Trim(FilterPrintable(data))

\* v = (v << 8) + b
UdsOdometerStep(v, b) == Shl(v, 8) + b

RECURSIVE UdsOdometer(_, _)
\* let v = 0; for (const b of data) v = (v << 8) + b
UdsOdometer(data, v) ==
  IF data = << >> THEN v ELSE UdsOdometer(Tail(data), UdsOdometerStep(v, Head(data)))

RECURSIVE UdsHexDump(_)
\* data.map(b => b.toString(16).padStart(2, "0").toUpperCase()).join(" ")
UdsHexDump(data) ==
  IF data = << >> THEN << >>
  ELSE IF Len(data) = 1 THEN Hex2(data[1])
  ELSE Hex2(data[1]) \o <<" ">> \o UdsHexDump(Tail(data))

L_VinUds == <<"V", "I", "N", " ", "(", "U", "D", "S", ")">>
L_Odometer == <<"O", "d", "o", "m", "e", "t", "e", "r">>
L_EcuSerial == <<"E", "C", "U", " ", "S", "e", "r", "i", "a", "l">>
L_DidPrefix == <<"D", "I", "D", " ", "0", "x">>
L_Km == <<" ", "k", "m">>

udsDecodeDid(did, data) ==
  LET hex == UdsHex(did)
  IN  IF hex = <<"F", "1", "9", "0">>
      THEN [did |-> did, label |-> L_VinUds, value |-> UdsText(data)]
      ELSE IF hex = <<"F", "1", "8", "C">>
      THEN [did |-> did, label |-> L_Odometer, value |-> ToDec(UdsOdometer(data, 0)) \o L_Km]
      ELSE IF hex = <<"F", "1", "8", "7">>
      THEN [did |-> did, label |-> L_EcuSerial, value |-> UdsText(data)]
      ELSE [did |-> did, label |-> L_DidPrefix \o hex, value |-> UdsHexDump(data)]

\* 0xF190, 0xF18C, 0xF187
DID_VIN == 61840
DID_ODOMETER == 61836
DID_ECU_SERIAL == 61831

\* the identifiers the decoder knows, and one that needs padding
UdsDidSample == {DID_VIN, DID_ODOMETER, DID_ECU_SERIAL, 400}

\* a control byte, the space, a letter and a byte with the top bit set
UdsByteSample == {0, 32, 65, 128}

\* every identifier with one frame, and the sampled ones with data up to n bytes
UdsInputs(n) ==
  { [did |-> d, data |-> <<10, 241>>] : d \in 0 .. 65535 }
    \cup { [did |-> d, data |-> q] : d \in UdsDidSample, q \in SeqsOf(UdsByteSample, 0, n) }

CallUdsDecodeDid ==
  /\ pc = "idle"
  /\ \E a \in UdsInputs(MaxUdsLen) :
       /\ fn' = "udsDecodeDid"
       /\ arg' = a
       /\ ret' = udsDecodeDid(a.did, a.data)
  /\ pc' = "returned"
  /\ UNCHANGED <<calls, pidDecoders, ioVars>>

NextUds == CallUdsDecodeDid \/ Return

SpecUds == Init /\ [][NextUds]_vars

\* the four upper-case hexadecimal digits of a number in 0..0xFFFF
Hex4Of(n) ==
  << HexUpper[(n \div 4096) + 1], HexUpper[((n \div 256) % 16) + 1],
     HexUpper[((n \div 16) % 16) + 1], HexUpper[(n % 16) + 1] >>

\* the characters of the bytes in 0x20..0x7E, in order, without the spaces at
\* either end
TrimmedPrintable(data) ==
  LET kept == PrintableOf(data)
      ink  == { i \in DOMAIN kept : kept[i] # 32 }
  IN  IF ink = { } THEN << >>
      ELSE LET first == CHOOSE i \in ink : \A j \in ink : i <= j
               last  == CHOOSE i \in ink : \A j \in ink : i >= j
           IN  [k \in 1 .. (last - first + 1) |-> Ascii[kept[first + k - 1] - 31]]

\* v is the space-separated 2-digit upper-case hex dump of data
IsHexDumpOf(v, data) ==
  /\ Len(v) = (IF data = << >> THEN 0 ELSE 3 * Len(data) - 1)
  /\ \A k \in DOMAIN data :
       /\ v[3 * k - 2] = HexUpper[(data[k] \div 16) + 1]
       /\ v[3 * k - 1] = HexUpper[(data[k] % 16) + 1]
       /\ (k < Len(data) => v[3 * k] = " ")

\* C14: udsDecodeDid always returns a result whose did is the input did; 0xF190
\* gives label "VIN (UDS)" and 0xF187 gives label "ECU Serial", each with the
\* trimmed printable characters of data in order; 0xF18C gives label "Odometer";
\* every other did gives label "DID 0x" + 4 upper-case hex digits and the
\* space-separated 2-digit upper-case hex dump of data.
C14_UdsDecode ==
  fn = "udsDecodeDid" =>
    /\ DOMAIN ret = {"did", "label", "value"}
    /\ ret.did = arg.did
    /\ (arg.did = 61840 =>
          ret.label = <<"V", "I", "N", " ", "(", "U", "D", "S", ")">>
            /\ ret.value = TrimmedPrintable(arg.data))
    /\ (arg.did = 61831 =>
          ret.label = <<"E", "C", "U", " ", "S", "e", "r", "i", "a", "l">>
            /\ ret.value = TrimmedPrintable(arg.data))
    /\ (arg.did = 61836 => ret.label = <<"O", "d", "o", "m", "e", "t", "e", "r">>)
    /\ (arg.did \notin {61840, 61831, 61836} =>
          ret.label = <<"D", "I", "D", " ", "0", "x">> \o Hex4Of(arg.did)
            /\ IsHexDumpOf(ret.value, arg.data))

C14_Witness ==
  /\ fn = "udsDecodeDid"
  /\ arg = [did |-> 400, data |-> <<10, 241>>]
  /\ ret.label = <<"D", "I", "D", " ", "0", "x", "0", "1", "9", "0">>
  /\ ret.value = <<"0", "A", " ", "F", "1">>

C14_WitnessVin ==
  /\ fn = "udsDecodeDid"
  /\ arg = [did |-> 61840, data |-> <<32, 0, 65, 32>>]
  /\ ret.value = <<"A">>

RECURSIVE ParseDec(_, _)
\* the number a sequence of decimal digits denotes, after the digits of acc
ParseDec(digits, acc) ==
  IF digits = << >> THEN acc
  ELSE ParseDec(Tail(digits), acc * 10 + IndexIn(DecDigits, Head(digits)) - 1)

RECURSIVE Base256(_)
\* the base-256 digits of a non-negative number, most significant first
Base256(n) == IF n = 0 THEN << >> ELSE Append(Base256(n \div 256), n % 256)

RECURSIVE StripZeros(_)
\* a byte sequence without its leading zero bytes
StripZeros(data) ==
  IF data # << >> /\ Head(data) = 0 THEN StripZeros(Tail(data)) ELSE data

\* C15: for did 0xF18C the value is the big-endian unsigned integer of all the
\* data bytes followed by " km": the numeral has no sign and its base-256
\* digits are the data bytes (leading zero bytes aside).
C15_OdometerUnsigned ==
  (fn = "udsDecodeDid" /\ arg.did = 61836) =>
    LET n       == Len(ret.value) - 3
        numeral == SubSeq(ret.value, 1, n)
    IN  /\ n >= 1
        /\ SubSeq(ret.value, n + 1, n + 3) = <<" ", "k", "m">>
        /\ \A i \in 1 .. n : IndexIn(DecDigits, numeral[i]) > 0
        /\ ((\A i \in 1 .. n : IndexIn(DecDigits, numeral[i]) > 0) =>
              Base256(ParseDec(numeral, 0)) = StripZeros(arg.data))

\* the same for data of at most three bytes, which 32-bit shifts cannot wrap
C15_OdometerShort ==
  (fn = "udsDecodeDid" /\ arg.did = 61836 /\ Len(arg.data) <= 3) =>
    /\ ret.value = ToDec(ParseDec(SubSeq(ret.value, 1, Len(ret.value) - 3), 0)) \o <<" ", "k", "m">>
    /\ Base256(ParseDec(SubSeq(ret.value, 1, Len(ret.value) - 3), 0)) = StripZeros(arg.data)

C15_WitnessNegative ==
  /\ fn = "udsDecodeDid"
  /\ arg = [did |-> 61836, data |-> <<128, 0, 0, 0>>]
  /\ ret.value = <<"-", "2", "1", "4", "7", "4", "8", "3", "6", "4", "8", " ", "k", "m">>

\* -------------------------------------------------------------------------
\* Request builders
\* -------------------------------------------------------------------------
\* reqMode01 without the upper-casing
ReqMode01AsGiven(pidHex) == <<"0", "1">> \o PadStart(pidHex, 2, "0")

\* `01${pidHex.toUpperCase().padStart(2, "0")}`
reqMode01(pidHex) == <<"0", "1">> \o PadStart(ToUpperCase(pidHex), 2, "0")

reqMode03 == <<"0", "3">>

reqMode04 == <<"0", "4">>

\* `09${pidHex.toUpperCase().padStart(2, "0")}`
reqMode09(pidHex) == <<"0", "9">> \o PadStart(ToUpperCase(pidHex), 2, "0")

\* `22${didHex.toUpperCase()}`
udsBuildReadDid(didHex) == <<"2", "2">> \o ToUpperCase(didHex)

\* the hexadecimal digits of either case
HexChars == DOMAIN HexValueOf

PidInputs == SeqsOf(HexChars, 0, MaxPidLen)

\* digits, and a letter in both cases
DidChars == {"0", "1", "9", "F", "f"}

DidInputs == SeqsOf(DidChars, 1, MaxDidLen)

CallReqMode01 ==
  /\ pc = "idle"
  /\ \E pidHex \in PidInputs :
       /\ fn' = "reqMode01"
       /\ arg' = pidHex
       /\ ret' = reqMode01(pidHex)
  /\ pc' = "returned"
  /\ UNCHANGED <<calls, pidDecoders, ioVars>>

CallReqMode03 ==
  /\ pc = "idle"
  /\ fn' = "reqMode03"
  /\ arg' = << >>
  /\ ret' = reqMode03
  /\ pc' = "returned"
  /\ UNCHANGED <<calls, pidDecoders, ioVars>>

CallReqMode04 ==
  /\ pc = "idle"
  /\ fn' = "reqMode04"
  /\ arg' = << >>
  /\ ret' = reqMode04
  /\ pc' = "returned"
  /\ UNCHANGED <<calls, pidDecoders, ioVars>>

CallReqMode09 ==
  /\ pc = "idle"
  /\ \E pidHex \in PidInputs :
       /\ fn' = "reqMode09"
       /\ arg' = pidHex
       /\ ret' = reqMode09(pidHex)
  /\ pc' = "returned"
  /\ UNCHANGED <<calls, pidDecoders, ioVars>>

CallUdsBuildReadDid ==
  /\ pc = "idle"
  /\ \E didHex \in DidInputs :
       /\ fn' = "udsBuildReadDid"
       /\ arg' = didHex
       /\ ret' = udsBuildReadDid(didHex)
  /\ pc' = "returned"
  /\ UNCHANGED <<calls, pidDecoders, ioVars>>

NextReq ==
  \/ CallReqMode01
  \/ CallReqMode03
  \/ CallReqMode04
  \/ CallReqMode09
  \/ CallUdsBuildReadDid
  \/ Return

SpecReq == Init /\ [][NextReq]_vars

\* a hexadecimal digit in upper case
UpperHexDigit(c) == HexUpper[HexValueOf[c] + 1]

\* text t is the hexadecimal text h in upper case, left-padded with "0" to n
IsPaddedUpper(t, h, n) ==
  /\ Len(t) = n
  /\ \A i \in 1 .. n :
       t[i] = (IF i <= n - Len(h) THEN "0" ELSE UpperHexDigit(h[i - (n - Len(h))]))

\* C16: for a PID of 1 or 2 hex digits reqMode01 has length 4, holds no
\* lower-case letter and is "01" followed by the PID upper-cased and
\* left-zero-padded to 2 digits; reqMode09 is the same with "09"; reqMode03 is
\* "03" and reqMode04 is "04".
C16_RequestBuilders ==
  /\ (fn \in {"reqMode01", "reqMode09"} /\ Len(arg) \in {1, 2}) =>
       /\ Len(ret) = 4
       /\ \A i \in 1 .. 4 : ret[i] \notin { LowerAlpha[k] : k \in DOMAIN LowerAlpha }
       /\ SubSeq(ret, 1, 2) = (IF fn = "reqMode01" THEN <<"0", "1">> ELSE <<"0", "9">>)
       /\ IsPaddedUpper(SubSeq(ret, 3, 4), arg, 2)
  /\ (fn = "reqMode03" => ret = <<"0", "3">>)
  /\ (fn = "reqMode04" => ret = <<"0", "4">>)

C16_Witness ==
  /\ fn = "reqMode01"
  /\ arg = <<"c">>
  /\ ret = <<"0", "1", "0", "C">>

C16_WitnessMode09 ==
  /\ fn = "reqMode09"
  /\ arg = <<"0", "a">>
  /\ ret = <<"0", "9", "0", "A">>

\* C17: every command of udsBuildReadDid is "22" followed by the DID as exactly
\* 4 upper-case hex digits, left-zero-padded: for a DID of 1 to 4 hex digits
\* the result has length 6.
C17_ReadDidPadded ==
  (fn = "udsBuildReadDid" /\ Len(arg) \in 1 .. 4) =>
    /\ Len(ret) = 6
    /\ SubSeq(ret, 1, 2) = <<"2", "2">>
    /\ IsPaddedUpper(SubSeq(ret, 3, 6), arg, 4)

\* the same for a DID given with all 4 digits
C17_ReadDidFourDigits ==
  (fn = "udsBuildReadDid" /\ Len(arg) = 4) =>
    /\ Len(ret) = 6
    /\ SubSeq(ret, 1, 2) = <<"2", "2">>
    /\ IsPaddedUpper(SubSeq(ret, 3, 6), arg, 4)

C17_WitnessShort ==
  /\ fn = "udsBuildReadDid"
  /\ arg = <<"f", "1">>
  /\ ret = <<"2", "2", "F", "1">>

\* -------------------------------------------------------------------------
\* A request and the parse of the positive response to it
\* -------------------------------------------------------------------------
RECURSIVE HexConcat(_)
\* the bytes as 2-digit hexadecimal text with no separators
HexConcat(d) == IF d = << >> THEN << >> ELSE Hex2(Head(d)) \o HexConcat(Tail(d))

\* the positive-response line to a request: "4" and the mode digit, the PID
\* characters of the request, the data
ResponseLineTo(request, d) == <<"4", request[2]>> \o SubSeq(request, 3, 4) \o HexConcat(d)

RoundTripBytes == {0, 26, 248, 255}

RoundTripData == SeqsOf(RoundTripBytes, 1, MaxRoundLen)

\* build the request for PID p (given padded in upper case, or as the bare
\* lower-case digits), then parse the synthetic response line to it
CallRoundTrip ==
  /\ pc = "idle"
  /\ \E mode \in {"01", "09"}, p \in Byte, padded \in BOOLEAN, d \in RoundTripData :
       LET pidHex  == IF padded THEN Hex2(p) ELSE ToHexStr(p)
           request == IF mode = "01" THEN reqMode01(pidHex) ELSE reqMode09(pidHex)
           line    == ResponseLineTo(request, d)
       IN  /\ fn' = "roundTrip"
           /\ arg' = [mode |-> mode, p |-> p, pidHex |-> pidHex, request |-> request,
                      data |-> d, line |-> line]
           /\ ret' = parseElmLines(<<line>>)
  /\ pc' = "returned"
  /\ UNCHANGED <<calls, pidDecoders, ioVars>>

NextRoundTrip == CallRoundTrip \/ Return

SpecRoundTrip == Init /\ [][NextRoundTrip]_vars

\* C18: parsing the single line "41" + the two PID characters of reqMode01(p)
\* + the hex of a non-empty d with no separators yields exactly one Response
\* with service "01", pid equal to the request's PID characters and data = d;
\* the same with "49" and reqMode09(p) giving service "09".
C18_RoundTrip ==
  fn = "roundTrip" =>
    /\ SubSeq(arg.line, 1, 2) = (IF arg.mode = "01" THEN <<"4", "1">> ELSE <<"4", "9">>)
    /\ ~ret.threw
    /\ Len(ret.out) = 1
    /\ ret.out[1].service = (IF arg.mode = "01" THEN <<"0", "1">> ELSE <<"0", "9">>)
    /\ "pid" \in DOMAIN ret.out[1]
    /\ ret.out[1].pid = SubSeq(arg.request, 3, 4)
    /\ ret.out[1].pid = <<HexUpper[(arg.p \div 16) + 1], HexUpper[(arg.p % 16) + 1]>>
    /\ ret.out[1].data = arg.data

C18_Witness ==
  /\ fn = "roundTrip"
  /\ arg.mode = "01"
  /\ arg.pidHex = <<"c">>
  /\ arg.request = <<"0", "1", "0", "C">>
  /\ arg.line = <<"4", "1", "0", "C", "1", "A", "F", "8">>
  /\ ret.out = << [service |-> <<"0", "1">>, pid |-> <<"0", "C">>, data |-> <<26, 248>>,
                   raw |-> <<"4", "1", "0", "C", "1", "A", "F", "8">>] >>

C18_WitnessMode09 ==
  /\ fn = "roundTrip"
  /\ arg.mode = "09"
  /\ arg.p = 2
  /\ arg.data = <<255>>
  /\ Len(ret.out) = 1
  /\ ret.out[1].service = <<"0", "9">>

\* -------------------------------------------------------------------------
\* parseElmLines works line by line
\* -------------------------------------------------------------------------
RECURSIVE ConcatAll(_)
\* the concatenation of a sequence of sequences
ConcatAll(ss) == IF ss = << >> THEN << >> ELSE Head(ss) \o ConcatAll(Tail(ss))

\* what each line of a list gives when it is parsed alone
AloneOutputs(lines) == [i \in DOMAIN lines |-> parseElmLines(<<lines[i]>>).out]

\* C19: parseElmLines produces at most one Response per line, in input-line
\* order, each built from exactly one line: the output is never longer than the
\* list of lines and equals the concatenation of the outputs for each line
\* parsed alone, whose Response (if any) carries that line's sanitized text.
C19_LineByLine ==
  fn = "parseElmLines" =>
    LET alone == AloneOutputs(arg)
    IN  /\ ~ret.threw
        /\ Len(ret.out) <= Len(arg)
        /\ \A i \in DOMAIN arg :
             /\ Len(alone[i]) <= 1
             /\ \A k \in DOMAIN alone[i] : alone[i][k].raw = cleanLine(arg[i])
        /\ ret.out = ConcatAll(alone)

C19_Witness ==
  /\ fn = "parseElmLines"
  /\ arg = <<L_Searching, L_Rpm>>
  /\ Len(ret.out) = 1
  /\ ret.out[1].data = <<26, 248>>

C19_WitnessOrder ==
  /\ fn = "parseElmLines"
  /\ arg = <<L_Dtc, L_Rpm>>
  /\ Len(ret.out) = 2
  /\ ret.out[1].service = <<"0", "3">>
  /\ ret.out[2].service = <<"0", "1">>

\* -------------------------------------------------------------------------
\* CAN identifier of a raw line
\* -------------------------------------------------------------------------
\* the class \w
IsWordChar(c) ==
  \/ IndexIn(LowerAlpha, c) > 0
  \/ IndexIn(UpperAlpha, c) > 0
  \/ IndexIn(DecDigits, c) > 0
  \/ c = "_"

\* the run test without the word boundary
HexRunNoBoundary(t, n) ==
  /\ Len(t) >= n
  /\ \A i \in 1 .. n : IsHexChar(t[i])

\* [0-9A-Fa-f]{n} at the start of the text, then \b
HexRunThenBoundary(t, n) ==
  /\ Len(t) >= n
  /\ \A i \in 1 .. n : IsHexChar(t[i])
  /\ (Len(t) = n \/ ~IsWordChar(t[n + 1]))

\* raw.trim().match(/^([0-9A-Fa-f]{3,4})\b/): the group, the longer run first
CanIdMatch(raw) ==
  LET t == Trim(raw)
  IN  IF HexRunThenBoundary(t, 4) THEN <<SubSeq(t, 1, 4)>>
      ELSE IF HexRunThenBoundary(t, 3) THEN <<SubSeq(t, 1, 3)>>
      ELSE << >>

\* /^[0-9A-F]{n}$/.test(id)
IsUpperHexOfLen(id, n) ==
  Len(id) = n /\ \A i \in 1 .. n : IndexIn(HexUpper, id[i]) > 0

\* /^(7E[0-9A-F])$/.test(id)
Is7Ex(id) == IsUpperHexOfLen(id, 3) /\ id[1] = "7" /\ id[2] = "E"

\* the identifier, or << >> for null
extractCanIdFromRawLine(raw) ==
  LET m == CanIdMatch(raw)
  IN  IF m = << >> THEN << >>
      ELSE LET id == ToUpperCase(m[1])
           IN  IF Is7Ex(id) \/ IsUpperHexOfLen(id, 3) \/ IsUpperHexOfLen(id, 4)
               THEN <<id>>
               ELSE << >>

\* -------------------------------------------------------------------------
\* Several callers at once
\* -------------------------------------------------------------------------
\* Every helper is a synchronous function and the runtime runs one call to its
\* end before another starts, so the interleavings of concurrent callers are
\* the orders in which whole calls are made and their results picked up.

\* decode writing the fallback back into the table for the next lookup
DecodeCallMemoizing(table, servicePid, dataBytes) ==
  LET k == ToUpperCase(servicePid)
  IN  IF k \in DOMAIN table
      THEN [result |-> PidDecoder(table[k], dataBytes), table |-> table]
      ELSE [result |-> [raw |-> dataBytes],
            table |-> [x \in DOMAIN table \cup {k} |-> IF x = k THEN K0105 ELSE table[x]]]

\* decode as a step on the module state: the value returned, and the table
\* pidDecoders it leaves behind (the lookup reads the table and writes nothing)
DecodeCall(table, servicePid, dataBytes) ==
  LET k == ToUpperCase(servicePid)
  IN  [result |-> IF k \in DOMAIN table THEN PidDecoder(table[k], dataBytes)
                  ELSE [raw |-> dataBytes],
       table |-> table]

\* the calls concurrent callers make: every exported helper at least once
SharedCalls ==
  { [fn |-> "decode", arg |-> [key |-> k, data |-> <<26, 248>>]] :
      k \in {K010C, <<"0", "1", "0", "c">>, <<"0", "9", "0", "2">>} }
    \cup { [fn |-> "parseElmLines", arg |-> <<L_Searching, L_Rpm>>],
           [fn |-> "decodeDtcs", arg |-> <<1, 1, 0, 0>>],
           [fn |-> "decodeVinFromBytes", arg |-> VinSample],
           [fn |-> "decodeMode06Records", arg |-> <<1, 2, 1, 0, 0, 255, 255, 255>>],
           [fn |-> "extractCanIdFromRawLine", arg |-> L_IsoTp],
           [fn |-> "extractCanIdFromRawLine", arg |-> L_Rpm],
           [fn |-> "udsDecodeDid", arg |-> [did |-> DID_ODOMETER, data |-> <<1, 226, 64>>]],
           [fn |-> "udsBuildReadDid", arg |-> <<"f", "1", "9", "0">>],
           [fn |-> "reqMode01", arg |-> <<"c">>],
           [fn |-> "reqMode09", arg |-> <<"0", "2">>],
           [fn |-> "reqMode03", arg |-> << >>],
           [fn |-> "reqMode04", arg |-> << >>] }

\* one call run on the module state: its result and the table it leaves
Apply(table, call) ==
  IF call.fn = "decode" THEN DecodeCall(table, call.arg.key, call.arg.data)
  ELSE [table |-> table,
        result |->
          CASE call.fn = "parseElmLines" -> parseElmLines(call.arg)
            [] call.fn = "decodeDtcs" -> decodeDtcs(call.arg)
            [] call.fn = "decodeVinFromBytes" -> decodeVinFromBytes(call.arg)
            [] call.fn = "decodeMode06Records" -> decodeMode06Records(call.arg)
            [] call.fn = "extractCanIdFromRawLine" -> extractCanIdFromRawLine(call.arg)
            [] call.fn = "udsDecodeDid" -> udsDecodeDid(call.arg.did, call.arg.data)
            [] call.fn = "udsBuildReadDid" -> udsBuildReadDid(call.arg)
            [] call.fn = "reqMode01" -> reqMode01(call.arg)
            [] call.fn = "reqMode09" -> reqMode09(call.arg)
            [] call.fn = "reqMode03" -> reqMode03
            [] call.fn = "reqMode04" -> reqMode04]

\* caller c makes a call, which runs to its end
Invoke(c) ==
  /\ calls[c].pc = "idle"
  /\ \E call \in SharedCalls :
       LET eff == Apply(pidDecoders, call)
       IN  /\ calls' = [calls EXCEPT ![c] = [pc |-> "returned", fn |-> call.fn,
                                             arg |-> call.arg, ret |-> eff.result]]
           /\ pidDecoders' = eff.table
  /\ UNCHANGED <<pc, fn, arg, ret, ioVars>>

\* caller c picks up the result
Complete(c) ==
  /\ calls[c].pc = "returned"
  /\ calls' = [calls EXCEPT ![c] = IdleCall]
  /\ UNCHANGED <<pc, fn, arg, ret, pidDecoders, ioVars>>

InvokeAny == \E c \in Callers : Invoke(c)

CompleteAny == \E c \in Callers : Complete(c)

NextShared == InvokeAny \/ CompleteAny

SpecShared == Init /\ [][NextShared]_vars

\* C20: every core operation is pure: under any interleaving of concurrent
\* callers no call changes the state another call reads (the table pidDecoders
\* stays as loaded), each call's result equals the result of the same call made
\* alone on the freshly loaded module, and two calls with identical input,
\* whenever they are made, yield identical output.
C20_Pure ==
  /\ pidDecoders = InitialDecoders
  /\ \A c \in Callers :
       calls[c].pc = "returned" =>
         calls[c].ret = Apply(InitialDecoders, [fn |-> calls[c].fn, arg |-> calls[c].arg]).result
  /\ \A c \in Callers, d \in Callers :
       (calls[c].pc = "returned" /\ calls[d].pc = "returned"
          /\ calls[c].fn = calls[d].fn /\ calls[c].arg = calls[d].arg)
         => calls[c].ret = calls[d].ret

\* C20 as a property of steps: no call writes the table
C20_NoSharedWrite == [][pidDecoders' = pidDecoders]_vars

C20_Witness ==
  /\ calls[1].pc = "returned"
  /\ calls[2].pc = "returned"
  /\ calls[1].fn = "decode"
  /\ calls[2].fn = "decode"
  /\ calls[1].arg = [key |-> <<"0", "9", "0", "2">>, data |-> <<26, 248>>]
  /\ calls[2].arg = calls[1].arg
  /\ calls[1].ret = [raw |-> <<26, 248>>]
  /\ calls[2].ret = [raw |-> <<26, 248>>]

C20_WitnessMixed ==
  /\ calls[1].pc = "returned"
  /\ calls[2].pc = "returned"
  /\ calls[1].fn = "parseElmLines"
  /\ calls[2].fn = "decode"
  /\ calls[2].ret = [rpm |-> JsDiv(6904, 4)]

\* -------------------------------------------------------------------------
\* Calls of extractCanIdFromRawLine
\* -------------------------------------------------------------------------
\* a hex digit of each kind, a letter that is no hex digit, the underscore and
\* the space
CanIdChars == {"7", "e", "G", "_", " "}

\* raw lines of up to n sampled characters, the corpus, and some identifiers
\* with their surroundings
CanIdInputs(n) ==
  SeqsOf(CanIdChars, 0, n)
    \cup CorpusLines
    \cup { <<"7", "E", "8", ":">>, <<"\t", "0", "7", "e", "8", "\r", "\n">>,
           <<"7", "e", "f", " ", "0", "3">>, <<"1", "2", "3", "4", "5", " ", "4", "1">>,
           <<"1", "8", "D", "A", "F", "1", "1", "0">>, <<"7", "E", "8", ">">> }

CallExtractCanId ==
  /\ pc = "idle"
  /\ \E raw \in CanIdInputs(MaxCanIdLen) :
       /\ fn' = "extractCanIdFromRawLine"
       /\ arg' = raw
       /\ ret' = extractCanIdFromRawLine(raw)
  /\ pc' = "returned"
  /\ UNCHANGED <<calls, pidDecoders, ioVars>>

NextCanId == CallExtractCanId \/ Return

SpecCanId == Init /\ [][NextCanId]_vars

\* the text between the first and the last character that is no white space
Stripped(s) ==
  LET ink == { i \in DOMAIN s : s[i] \notin {" ", "\t", "\r", "\n"} }
  IN  IF ink = { } THEN << >>
      ELSE SubSeq(s, CHOOSE i \in ink : \A j \in ink : i <= j,
                     CHOOSE i \in ink : \A j \in ink : i >= j)

\* the length of the longest run of hex digits a text begins with
LeadingHexRun(t) ==
  LET stops == { i \in DOMAIN t : ~IsHexChar(t[i]) }
  IN  IF stops = { } THEN Len(t) ELSE (CHOOSE i \in stops : \A j \in stops : i <= j) - 1

\* letters, digits and the underscore
WordChars ==
  { LowerAlpha[i] : i \in DOMAIN LowerAlpha } \cup { UpperAlpha[i] : i \in DOMAIN UpperAlpha }
    \cup { DecDigits[i] : i \in DOMAIN DecDigits } \cup {"_"}

\* the trimmed line begins with a run of 3 or 4 hex digits that ends at a word
\* boundary
HasCanIdToken(t) ==
  LET r == LeadingHexRun(t)
  IN  r \in {3, 4} /\ (Len(t) = r \/ t[r + 1] \notin WordChars)

\* C21: extractCanIdFromRawLine returns the leading token, upper-cased, exactly
\* when the trimmed raw line begins with a run of 3 or 4 hex digits that ends at
\* a word boundary, and none in every other case (a 2-digit first token, a run
\* of 5 or more); a returned ID is 3 or 4 upper-case hex characters.
C21_CanId ==
  fn = "extractCanIdFromRawLine" =>
    LET t == Stripped(arg)
    IN  /\ (HasCanIdToken(t) =>
              ret = << [i \in 1 .. LeadingHexRun(t) |-> UpperHexDigit(t[i])] >>)
        /\ (~HasCanIdToken(t) => ret = << >>)
        /\ (ret # << >> =>
              /\ Len(ret[1]) \in {3, 4}
              /\ \A i \in DOMAIN ret[1] : IndexIn(HexUpper, ret[1][i]) > 0)
        /\ (arg = L_Rpm => ret = << >>)
        /\ (arg = <<"1", "2", "3", "4", "5", " ", "4", "1">> => ret = << >>)

C21_Witness ==
  /\ fn = "extractCanIdFromRawLine"
  /\ arg = <<"\t", "0", "7", "e", "8", "\r", "\n">>
  /\ ret = << <<"0", "7", "E", "8">> >>

C21_WitnessNone ==
  /\ fn = "extractCanIdFromRawLine"
  /\ arg = <<"7", "e", "7", "G">>
  /\ ret = << >>

\* -------------------------------------------------------------------------
\* The adapter transport: send on one shared receive buffer
\* -------------------------------------------------------------------------
\* The buffer and the socket hold the adapter's output in the pieces the data
\* events deliver: a reply line, tagged with the command it answers, or the
\* prompt ">".  The adapter answers the commands in the order it receives them,
\* each with its reply line and then the prompt.

\* two of the commands the dashboard polls in turn
PollCmds == {K010C, K010D}

\* the adapter's prompt character ">"
Prompt == [kind |-> "prompt", replyTo |-> << >>]

\* the line the adapter emits in reply to a command
ReplyLine(cmd) == [kind |-> "line", replyTo |-> cmd]

\* raw.replace(/>/g, '').split(/\r?\n/).map(trim).filter(Boolean)
LinesOf(raw) == Where(raw, LAMBDA piece : piece # Prompt)

\* this.buffer.includes('>')
HasPrompt(buf) == \E i \in DOMAIN buf : buf[i] = Prompt

\* send(cmd) up to its first wait: the buffer is emptied, then write(cmd) throws
\* when the socket has closed and otherwise hands the command to the adapter;
\* the first tick() finds the emptied buffer and re-arms its timer
SendStart(s, cmd) ==
  /\ sends[s].pc = "idle"
  /\ Len(transport.socket) + 2 <= MaxQueued
  /\ IF transport.connected
     THEN /\ transport' = [transport EXCEPT !.buffer = << >>,
                                            !.socket = @ \o <<ReplyLine(cmd), Prompt>>]
          /\ sends' = [sends EXCEPT ![s] = [pc |-> "polling", cmd |-> cmd,
                                            lines |-> << >>, timedOut |-> FALSE]]
     ELSE /\ transport' = [transport EXCEPT !.buffer = << >>]
          /\ sends' = [sends EXCEPT ![s] = [pc |-> "rejected", cmd |-> cmd,
                                            lines |-> << >>, timedOut |-> FALSE]]
  /\ UNCHANGED <<pc, fn, arg, ret, calls, pidDecoders, uds>>

\* socket.on('data'): the next piece from the adapter is appended to the buffer
OnData ==
  /\ transport.socket # << >>
  /\ transport' = [transport EXCEPT !.buffer = Append(@, Head(transport.socket)),
                                    !.socket = Tail(@)]
  /\ UNCHANGED <<pc, fn, arg, ret, calls, pidDecoders, sends, uds>>

\* tick() with the prompt in the buffer: the whole buffer is taken and emptied
\* and the call resolves with its lines
TickPrompt(s) ==
  /\ sends[s].pc = "polling"
  /\ HasPrompt(transport.buffer)
  /\ sends' = [sends EXCEPT ![s].pc = "resolved", ![s].lines = LinesOf(transport.buffer)]
  /\ transport' = [transport EXCEPT !.buffer = << >>]
  /\ UNCHANGED <<pc, fn, arg, ret, calls, pidDecoders, uds>>

\* tick() after timeoutMs without a prompt: the call resolves with what the
\* buffer holds, which stays there
TickTimeout(s) ==
  /\ sends[s].pc = "polling"
  /\ ~HasPrompt(transport.buffer)
  /\ sends' = [sends EXCEPT ![s].pc = "resolved", ![s].lines = transport.buffer,
                            ![s].timedOut = TRUE]
  /\ UNCHANGED <<pc, fn, arg, ret, calls, pidDecoders, transport, uds>>

\* the interval callback is done with the result of its send
Collect(s) ==
  /\ sends[s].pc \in {"resolved", "rejected"}
  /\ sends' = [sends EXCEPT ![s] = IdleSend]
  /\ UNCHANGED <<pc, fn, arg, ret, calls, pidDecoders, transport, uds>>

\* socket.on('close')
OnClose ==
  /\ transport.connected
  /\ transport' = [transport EXCEPT !.connected = FALSE]
  /\ UNCHANGED <<pc, fn, arg, ret, calls, pidDecoders, sends, uds>>

SendStartAny == \E s \in Senders, cmd \in PollCmds : SendStart(s, cmd)

TickPromptAny == \E s \in Senders : TickPrompt(s)

TickTimeoutAny == \E s \in Senders : TickTimeout(s)

CollectAny == \E s \in Senders : Collect(s)

NextTransport ==
  \/ SendStartAny
  \/ OnData
  \/ TickPromptAny
  \/ TickTimeoutAny
  \/ CollectAny
  \/ OnClose

SpecTransport == Init /\ [][NextTransport]_vars

\* C22: each send(cmd) resolves with the lines the adapter emitted in reply to
\* cmd, everything received up to the prompt, also when another send on the
\* same transport is in flight: a call that resolves on the prompt holds the
\* reply to its own command and nothing else.
C22_OwnReply ==
  \A s \in Senders :
    (sends[s].pc = "resolved" /\ ~sends[s].timedOut) =>
      sends[s].lines = <<ReplyLine(sends[s].cmd)>>

\* tick B's send of 010D has resolved with the reply to tick A's 010C
C22_WitnessCrossed ==
  /\ sends["tickA"].pc = "polling"
  /\ sends["tickA"].cmd = K010C
  /\ sends["tickB"].pc = "resolved"
  /\ sends["tickB"].cmd = K010D
  /\ ~sends["tickB"].timedOut
  /\ sends["tickB"].lines = <<ReplyLine(K010C)>>

\* -------------------------------------------------------------------------
\* Lines without a positive-response token
\* -------------------------------------------------------------------------
\* every 2-hex-digit token of a sanitized line, upper-cased, before any is
\* discarded
AllTokens(clean) ==
  LET matches == HexPairMatches(AfterColon(clean), 1)
  IN  [i \in DOMAIN matches |-> ToUpperCase(matches[i])]

\* no token of the line has first nibble 4
NoPositiveToken(clean) ==
  \A k \in DOMAIN AllTokens(clean) : ~isPositiveResp(AllTokens(clean)[k])

\* C23: a line in which no extracted token matches the positive-response
\* pattern (first nibble 4) is tokenized to its full token list unchanged and
\* contributes no Response, e.g. "7F 01 12" or "UNABLE TO CONNECT".
C23_NoPositiveNoResponse ==
  fn = "parseElmLines" =>
    \A i \in DOMAIN arg :
      NoPositiveToken(cleanLine(arg[i])) =>
        /\ hexPairsFrom(cleanLine(arg[i])) = AllTokens(cleanLine(arg[i]))
        /\ AloneOutputs(arg)[i] = << >>

\* the tokenizer's half of C23 alone: the token list is returned unchanged
C23_TokensUnchanged ==
  fn = "parseElmLines" =>
    \A i \in DOMAIN arg :
      NoPositiveToken(cleanLine(arg[i])) =>
        hexPairsFrom(cleanLine(arg[i])) = AllTokens(cleanLine(arg[i]))

\* the negative-response line is answered with a Response of service 3F
C23_WitnessNegative ==
  /\ fn = "parseElmLines"
  /\ arg = <<L_Negative>>
  /\ NoPositiveToken(cleanLine(L_Negative))
  /\ Len(ret.out) = 1
  /\ ret.out[1].service = <<"3", "F">>
  /\ ret.out[1].data = <<1, 18>>

\* the adapter message is answered with a Response of service 6B
C23_WitnessUnable ==
  /\ fn = "parseElmLines"
  /\ arg = <<L_Unable>>
  /\ NoPositiveToken(cleanLine(L_Unable))
  /\ Len(ret.out) = 1
  /\ ret.out[1].service = <<"6", "B">>

\* -------------------------------------------------------------------------
\* Tokens before the first positive-response token
\* -------------------------------------------------------------------------
\* the value of a 2-hex-digit token
TokenValue(t) == 16 * HexDigitVal(t[1]) + HexDigitVal(t[2])

\* the position of the first token with first nibble 4
FirstPositiveAt(toks) ==
  CHOOSE k \in DOMAIN toks :
    isPositiveResp(toks[k]) /\ \A j \in 1 .. (k - 1) : ~isPositiveResp(toks[j])

\* the Responses a line gives when only the first positive token and the tokens
\* after it are read
FromFirstPositive(toks) ==
  LET k == FirstPositiveAt(toks)
      rest == SubSeq(toks, k + 1, Len(toks))
      service == <<"0", toks[k][2]>>
      values == [i \in DOMAIN rest |-> TokenValue(rest[i])]
  IN  IF toks[k][2] \in {"1", "9"}
      THEN IF Len(rest) >= 2
           THEN <<[service |-> service, pid |-> rest[1], data |-> Tail(values)]>>
           ELSE << >>
      ELSE IF Len(rest) >= 1
           THEN <<[service |-> service, data |-> values]>>
           ELSE << >>

\* a Response without its raw text
SansRaw(r) == [f \in DOMAIN r \ {"raw"} |-> r[f]]

\* C24: when a line's tokens contain a token in 0x40..0x4F, every token before
\* the first such token is discarded: the Response's service comes from that
\* token and its pid and data only from the tokens after it, so a preamble (CAN
\* arbitration id, ISO-TP framing bytes) never appears in service, pid or data.
\* "07E8 10 14 41 0C 1A F8" gives service "01", pid "0C", data [0x1A, 0xF8].
C24_PreambleDiscarded ==
  fn = "parseElmLines" =>
    /\ \A i \in DOMAIN arg :
         LET toks == AllTokens(cleanLine(arg[i]))
             alone == AloneOutputs(arg)[i]
         IN  ~NoPositiveToken(cleanLine(arg[i])) =>
               /\ hexPairsFrom(cleanLine(arg[i]))
                    = SubSeq(toks, FirstPositiveAt(toks), Len(toks))
               /\ [k \in DOMAIN alone |-> SansRaw(alone[k])] = FromFirstPositive(toks)
    /\ arg = <<L_IsoTp>> =>
         /\ Len(ret.out) = 1
         /\ SansRaw(ret.out[1])
              = [service |-> <<"0", "1">>, pid |-> <<"0", "C">>, data |-> <<26, 248>>]

C24_Witness ==
  /\ fn = "parseElmLines"
  /\ arg = <<L_IsoTp>>
  /\ FirstPositiveAt(AllTokens(cleanLine(L_IsoTp))) = 5
  /\ Len(ret.out) = 1
  /\ ret.out[1].service = <<"0", "1">>
  /\ ret.out[1].pid = <<"0", "C">>
  /\ ret.out[1].data = <<26, 248>>

\* a generated line with a preamble token and no pid
C24_WitnessNoPid ==
  /\ fn = "parseElmLines"
  /\ arg = <<<<"7", "F", " ", "4", "3", " ", "1", "A", " ">>>>
  /\ Len(ret.out) = 1
  /\ ret.out[1].service = <<"0", "3">>
  /\ ret.out[1].data = <<26>>

\* -------------------------------------------------------------------------
\* Text before the last colon
\* -------------------------------------------------------------------------
\* the tokens of a text, from its first positive-response token on when it has
\* one
TokensKept(text) ==
  LET matches == HexPairMatches(text, 1)
      toks == [i \in DOMAIN matches |-> ToUpperCase(matches[i])]
  IN  IF \E k \in DOMAIN toks : isPositiveResp(toks[k])
      THEN SubSeq(toks, FirstPositiveAt(toks), Len(toks))
      ELSE toks

\* a line that ends in a colon, with a frame in front of it
L_ColonLast == <<"4", "3", " ", "0", "C", " ", ":">>

\* C25: if a sanitized line contains a colon, the tokenizer retains only the
\* substring after the last colon: no character at or before the last colon
\* contributes a token, also when the last colon is the line's final character.
C25_AfterLastColonOnly ==
  fn = "parseElmLines" =>
    \A i \in DOMAIN arg :
      HasColon(cleanLine(arg[i])) =>
        hexPairsFrom(cleanLine(arg[i])) = TokensKept(AfterLastColon(cleanLine(arg[i])))

\* the same for the lines that have text after their last colon
C25_TextAfterColon ==
  fn = "parseElmLines" =>
    \A i \in DOMAIN arg :
      (HasColon(cleanLine(arg[i])) /\ AfterLastColon(cleanLine(arg[i])) # << >>) =>
        hexPairsFrom(cleanLine(arg[i])) = TokensKept(AfterLastColon(cleanLine(arg[i])))

\* the text in front of a final colon is tokenized and parsed
C25_WitnessColonLast ==
  /\ fn = "parseElmLines"
  /\ arg = <<L_ColonLast>>
  /\ AfterLastColon(cleanLine(L_ColonLast)) = << >>
  /\ hexPairsFrom(cleanLine(L_ColonLast)) = << <<"4", "3">>, <<"0", "C">> >>
  /\ Len(ret.out) = 1
  /\ ret.out[1].service = <<"0", "3">>
  /\ ret.out[1].data = <<12>>

\* -------------------------------------------------------------------------
\* What the sanitizer leaves in a line
\* -------------------------------------------------------------------------
\* the word w occurs in s, in any letter case
ContainsWord(s, w) == \E i \in DOMAIN s : MatchesWordAt(s, i, w)

\* BUS INIT occurs in s, in any letter case
ContainsBusInit(s) ==
  \E i \in DOMAIN s :
    /\ MatchesWordAt(s, i, W_BUS)
    /\ SpaceRun(s, i + 3) > 0
    /\ MatchesWordAt(s, i + 3 + SpaceRun(s, i + 3), W_INIT)

\* one of the banner phrases occurs in s
ContainsBanner(s) ==
  \/ ContainsWord(s, W_SEARCHING)
  \/ ContainsBusInit(s)
  \/ ContainsWord(s, W_STOPPED)

\* the banner-only lines the documentation quotes, and the prompt line
BannerOnlyLines == {L_Searching, L_BusInit, L_Prompt}

\* C26: for every raw input line, the sanitizer's output contains no prompt
\* character '>', no CR or LF, and no occurrence in any letter case of the banner
\* phrases SEARCHING, BUS INIT or STOPPED; a line made only of banner phrases
\* (such as "SEARCHING..." or "BUS INIT..."), prompt characters and whitespace
\* sanitizes to the empty string.
C26_Sanitized ==
  fn = "parseElmLines" =>
    \A i \in DOMAIN arg :
      LET clean == cleanLine(arg[i])
      IN  /\ \A k \in DOMAIN clean : clean[k] \notin {">", "\r", "\n"}
          /\ ~ContainsBanner(clean)
          /\ arg[i] \in BannerOnlyLines => clean = << >>

\* the first part of C26 alone: no prompt character, no CR, no LF
C26_NoPromptNoNewline ==
  fn = "parseElmLines" =>
    \A i \in DOMAIN arg :
      \A k \in DOMAIN cleanLine(arg[i]) : cleanLine(arg[i])[k] \notin {">", "\r", "\n"}

\* no banner phrase in the output
C26_NoBanner ==
  fn = "parseElmLines" => \A i \in DOMAIN arg : ~ContainsBanner(cleanLine(arg[i]))

\* the quoted banner-only lines sanitize to the empty string
C26_BannerOnlyEmpty ==
  fn = "parseElmLines" =>
    \A i \in DOMAIN arg : arg[i] \in BannerOnlyLines => cleanLine(arg[i]) = << >>

\* "SEARCHING..." sanitizes to ".."
C26_WitnessDots ==
  /\ fn = "parseElmLines"
  /\ arg = <<L_Searching>>
  /\ cleanLine(L_Searching) = <<".", ".">>

\* "BUS STOPPED INIT" sanitizes to "BUS INIT"
C26_WitnessBannerFormed ==
  /\ fn = "parseElmLines"
  /\ arg = <<L_BusStoppedInit>>
  /\ cleanLine(L_BusStoppedInit) = <<"B", "U", "S", " ", "I", "N", "I", "T">>

\* -------------------------------------------------------------------------
\* udsReadSafe
\* -------------------------------------------------------------------------
\* const dids = ['F190', 'F18C', 'F187']
UdsDids == << <<"F", "1", "9", "0">>, <<"F", "1", "8", "C">>, <<"F", "1", "8", "7">> >>

\* `ATSH${address}`
AtshOf(address) == <<"A", "T", "S", "H">> \o address

ATSH7DF == AtshOf(<<"7", "D", "F">>)

\* the ECU addresses udsReadSafe is called with
UdsAddresses == { <<"7", "E", "0">>, <<"7", "E", "1">> }

\* payloads of a reply: the text "12", a small number, and "J1" whose first
\* byte 0x4A has first nibble 4
UdsPayloads == { <<49, 50>>, <<0, 16>>, <<74, 49>> }

\* the number a DID's four hex digits stand for
DidNumber(did) == ParseHexPrefix(did, 1, 0)

\* the positive UDS response line: 62, DID high byte, DID low byte, payload
PositiveReply(did, payload) ==
  UdsHexDump(<<98, DidNumber(did) \div 256, DidNumber(did) % 256>> \o payload)

\* the negative UDS response line "7F 22 31"
L_UdsNegative == <<"7", "F", " ", "2", "2", " ", "3", "1">>

\* a positive response behind a frame byte 0x4A
BehindFrameByte(did) == <<"4", "A", " ">> \o PositiveReply(did, <<49, 50>>)

\* what t.send(22<did>) may resolve with: no line (timeout), a positive
\* response, a negative response, a positive response behind a frame byte
UdsReplyChoices(did) ==
  {<< >>, <<L_UdsNegative>>, <<BehindFrameByte(did)>>}
    \cup { <<PositiveReply(did, p)>> : p \in UdsPayloads }

\* b.length >= 3 && b[0] === 0x62: the item pushed for the data bytes b of the
\* first Response
UdsItemsOfData(did, b) ==
  IF Len(b) >= 3 /\ b[1] = 98
  THEN CHOOSE items \in
         { <<[did |-> did, label |-> dec.label, value |-> dec.value]>> :
             dec \in {udsDecodeDid(Shl(b[2], 8) + b[3], SubSeq(b, 4, Len(b)))} } : TRUE
  ELSE << >>

\* const raw = resps[0]; if (!raw) continue; ...: the items one reply adds to out
UdsItemsOf(did, resps) ==
  IF resps = << >> THEN << >> ELSE UdsItemsOfData(did, resps[1].data)

\* udsReadSafe(address) up to its first await; without a transport it returns []
UdsCall(address, hasTransport) ==
  /\ uds.pc = "idle"
  /\ uds' = IF hasTransport
            THEN [uds EXCEPT !.pc = "header", !.address = address]
            ELSE [uds EXCEPT !.pc = "returned", !.address = address]
  /\ UNCHANGED <<pc, fn, arg, ret, calls, pidDecoders, transport, sends>>

\* await t.send(`ATSH${address}`): write throws when the transport is not
\* connected, and the rejection leaves udsReadSafe
UdsSendHeader ==
  /\ uds.pc = "header"
  /\ uds' = IF transport.connected
            THEN [uds EXCEPT !.pc = "did", !.sent = Append(@, AtshOf(uds.address))]
            ELSE [uds EXCEPT !.pc = "failed"]
  /\ UNCHANGED <<pc, fn, arg, ret, calls, pidDecoders, transport, sends>>

\* the DID of the next round of the loop over dids
UdsNextDid == UdsDids[Len(uds.replies) + 1]

\* udsReadSafe after t.send(22<did>): rejected by write when the transport is
\* not connected, otherwise resolved with lines, which parseElmLines has parsed
UdsAfterSend(did, lines, parsed) ==
  IF ~transport.connected
  THEN [uds EXCEPT !.pc = "failed"]
  ELSE IF parsed.threw
  THEN [uds EXCEPT !.pc = "failed", !.sent = Append(@, udsBuildReadDid(did))]
  ELSE [uds EXCEPT !.pc = IF Len(uds.replies) + 1 = Len(UdsDids) THEN "restore" ELSE "did",
                   !.sent = Append(@, udsBuildReadDid(did)),
                   !.replies = Append(@, lines),
                   !.out = @ \o UdsItemsOf(did, parsed.out)]

\* one round of the loop over dids: send 22<did>, parse the lines, push an item
UdsReadDid ==
  /\ uds.pc = "did"
  /\ \E lines \in UdsReplyChoices(UdsNextDid) :
       \E parsed \in {parseElmLines(lines)} :
         uds' = UdsAfterSend(UdsNextDid, lines, parsed)
  /\ UNCHANGED <<pc, fn, arg, ret, calls, pidDecoders, transport, sends>>

\* await t.send('ATSH7DF'); return out
UdsRestore ==
  /\ uds.pc = "restore"
  /\ uds' = IF transport.connected
            THEN [uds EXCEPT !.pc = "returned", !.sent = Append(@, ATSH7DF)]
            ELSE [uds EXCEPT !.pc = "failed"]
  /\ UNCHANGED <<pc, fn, arg, ret, calls, pidDecoders, transport, sends>>

\* the caller takes the result or the rejection; udsReadSafe can be called again
UdsCollect ==
  /\ uds.pc \in {"returned", "failed"}
  /\ uds' = UdsNotCalled
  /\ UNCHANGED <<pc, fn, arg, ret, calls, pidDecoders, transport, sends>>

UdsCallAny == \E address \in UdsAddresses, hasTransport \in BOOLEAN : UdsCall(address, hasTransport)

\* the continuations of udsReadSafe the event loop runs
UdsStep == UdsSendHeader \/ UdsReadDid \/ UdsRestore

NextUdsRead == UdsCallAny \/ UdsSendHeader \/ UdsReadDid \/ UdsRestore \/ UdsCollect \/ OnClose

SpecUdsRead == Init /\ [][NextUdsRead]_vars

\* a resolved promise's continuation is run by the event loop
SpecUdsReadFair == SpecUdsRead /\ WF_vars(UdsStep)

\* C27: for each of the DIDs F190, F18C and F187, when the reply to 22<DID> is a
\* positive UDS response line (0x62, DID high byte, DID low byte, payload),
\* udsReadSafe returns an item for that DID whose label and value are those of
\* udsDecodeDid applied to the DID and the payload.
C27_PositiveReplyItem ==
  \A i \in DOMAIN uds.replies :
    \A p \in UdsPayloads :
      uds.replies[i] = <<PositiveReply(UdsDids[i], p)>> =>
        \E k \in DOMAIN uds.out :
          /\ uds.out[k].did = UdsDids[i]
          /\ uds.out[k].label = udsDecodeDid(DidNumber(UdsDids[i]), p).label
          /\ uds.out[k].value = udsDecodeDid(DidNumber(UdsDids[i]), p).value

\* three positive replies and an empty result
C27_WitnessNoItem ==
  /\ uds.pc = "returned"
  /\ uds.replies = [i \in 1 .. 3 |-> <<PositiveReply(UdsDids[i], <<49, 50>>)>>]
  /\ uds.out = << >>

\* an item is pushed when the 0x62 comes second in the line
C27_WitnessItem ==
  /\ uds.pc = "returned"
  /\ Len(uds.replies) = 3
  /\ uds.replies[1] = <<BehindFrameByte(UdsDids[1])>>
  /\ Len(uds.out) >= 1
  /\ uds.out[1] = [did |-> UdsDids[1], label |-> L_VinUds, value |-> <<"1", "2">>]

\* -------------------------------------------------------------------------
\* The broadcast header after udsReadSafe
\* -------------------------------------------------------------------------
\* the running call has sent ATSH<address>
HeaderSent == uds.sent # << >> /\ uds.sent[1] = AtshOf(uds.address)

\* the call has returned and the last command it sent is ATSH7DF
HeaderRestored ==
  /\ uds.pc = "returned"
  /\ uds.sent # << >>
  /\ uds.sent[Len(uds.sent)] = ATSH7DF

\* C28: udsReadSafe always restores the broadcast header: in every execution in
\* which it has sent ATSH<address>, it eventually sends ATSH7DF as its last
\* command, also when one of the intermediate send calls fails.
C28_HeaderRestored == [](HeaderSent => <>HeaderRestored)

\* the same for the calls that end: a call that has sent ATSH<address> and is
\* over has sent ATSH7DF last
C28_EndedRestored ==
  (uds.pc \in {"returned", "failed"} /\ HeaderSent) => uds.sent[Len(uds.sent)] = ATSH7DF

\* a call that returns has restored the header
C28_ReturnedRestored == (uds.pc = "returned" /\ HeaderSent) => HeaderRestored

\* the call is over, rejected by a send after the header, ATSH7DF never sent
C28_WitnessLeftOnEcu ==
  /\ uds.pc = "failed"
  /\ uds.sent = <<AtshOf(<<"7", "E", "0">>), udsBuildReadDid(UdsDids[1])>>
  /\ ~transport.connected

\* -------------------------------------------------------------------------
\* Convenience helpers: tryDecodePidResponse, tryDecodeDtcResponse, tryDecodeVin
\* -------------------------------------------------------------------------
\* !resp.pid: the field is missing or is the empty string
NoPid(resp) == "pid" \notin DOMAIN resp \/ resp.pid = << >>

\* the result is an option: << >> for null
tryDecodePidResponse(resp) ==
  IF resp.service # S01 \/ NoPid(resp) THEN << >>
  ELSE <<decode(<<"0", "1">> \o resp.pid, resp.data)>>

tryDecodeDtcResponse(resp) ==
  IF resp.service # <<"0", "3">> /\ resp.service # <<"0", "7">> /\ resp.service # <<"0", "A">>
  THEN << >>
  ELSE <<decodeDtcs(resp.data)>>

\* tryDecodeVin without the test of the pid
tryDecodeVinAnyPid(resp) ==
  IF resp.service # S09 THEN << >> ELSE <<decodeVinFromBytes(resp.data)>>

tryDecodeVin(resp) ==
  IF resp.service # S09 \/ "pid" \notin DOMAIN resp \/ resp.pid # <<"0", "2">> THEN << >>
  ELSE <<decodeVinFromBytes(resp.data)>>

\* services of the three helpers, one in lower case, and two others
RespServices ==
  {S01, <<"0", "3">>, <<"0", "7">>, <<"0", "A">>, S09, <<"0", "a">>, <<"0", "6">>, <<"4", "1">>}

\* pids: the empty string, known and unknown ones, one in lower case
RespPids == {<< >>, <<"0", "C">>, <<"0", "c">>, <<"0", "2">>, <<"0", "D">>, <<"F", "F">>}

\* data bytes: zero, a DTC byte, a letter, a high byte
RespBytes == {0, 1, 65, 248}

\* Responses with and without the field pid, data up to n bytes
RespInputs(n) ==
  { [service |-> s, data |-> d] : s \in RespServices, d \in SeqsOf(RespBytes, 0, n) }
    \cup { [service |-> s, pid |-> p, data |-> d] :
             s \in RespServices, p \in RespPids, d \in SeqsOf(RespBytes, 0, n) }

CallTryDecodePidResponse ==
  /\ pc = "idle"
  /\ \E resp \in RespInputs(MaxRespLen) :
       /\ fn' = "tryDecodePidResponse"
       /\ arg' = resp
       /\ ret' = tryDecodePidResponse(resp)
  /\ pc' = "returned"
  /\ UNCHANGED <<calls, pidDecoders, ioVars>>

CallTryDecodeDtcResponse ==
  /\ pc = "idle"
  /\ \E resp \in RespInputs(MaxRespLen) :
       /\ fn' = "tryDecodeDtcResponse"
       /\ arg' = resp
       /\ ret' = tryDecodeDtcResponse(resp)
  /\ pc' = "returned"
  /\ UNCHANGED <<calls, pidDecoders, ioVars>>

CallTryDecodeVin ==
  /\ pc = "idle"
  /\ \E resp \in RespInputs(MaxRespLen) :
       /\ fn' = "tryDecodeVin"
       /\ arg' = resp
       /\ ret' = tryDecodeVin(resp)
  /\ pc' = "returned"
  /\ UNCHANGED <<calls, pidDecoders, ioVars>>

NextTryDecode ==
  CallTryDecodePidResponse \/ CallTryDecodeDtcResponse \/ CallTryDecodeVin \/ Return

SpecTryDecode == Init /\ [][NextTryDecode]_vars

\* a pid is present: the field is there and is not the empty string
PidPresent(resp) == "pid" \in DOMAIN resp /\ resp.pid # << >>

\* how many of the three helpers answer a Response
AnswerCount(resp) ==
  (IF tryDecodePidResponse(resp) # << >> THEN 1 ELSE 0)
    + (IF tryDecodeDtcResponse(resp) # << >> THEN 1 ELSE 0)
    + (IF tryDecodeVin(resp) # << >> THEN 1 ELSE 0)

\* C29: the convenience helpers gate on the response kind:
\* tryDecodePidResponse returns null unless service is "01" and a pid is
\* present, and otherwise returns decode("01" + pid, data);
\* tryDecodeDtcResponse returns non-null if and only if service is "03", "07" or
\* "0A"; tryDecodeVin returns non-null if and only if service is "09" and pid is
\* "02".  For any Response at most one of the three helpers returns non-null.
C29_HelpersGate ==
  /\ fn = "tryDecodePidResponse" =>
       IF arg.service = <<"0", "1">> /\ PidPresent(arg)
       THEN ret = <<decode(<<"0", "1">> \o arg.pid, arg.data)>>
       ELSE ret = << >>
  /\ fn = "tryDecodeDtcResponse" =>
       (ret # << >>) <=> arg.service \in {<<"0", "3">>, <<"0", "7">>, <<"0", "A">>}
  /\ fn = "tryDecodeVin" =>
       (ret # << >>) <=>
         (arg.service = <<"0", "9">> /\ "pid" \in DOMAIN arg /\ arg.pid = <<"0", "2">>)
  /\ fn \in {"tryDecodePidResponse", "tryDecodeDtcResponse", "tryDecodeVin"} =>
       AnswerCount(arg) <= 1

\* an RPM Response decoded by tryDecodePidResponse
C29_Witness ==
  /\ fn = "tryDecodePidResponse"
  /\ arg = [service |-> <<"0", "1">>, pid |-> <<"0", "c">>, data |-> <<1, 248>>]
  /\ ret = <<decode(K010C, <<1, 248>>)>>
  /\ AnswerCount(arg) = 1

\* a service 09 Response with another pid is not a VIN
C29_WitnessVinGate ==
  /\ fn = "tryDecodeVin"
  /\ arg.service = <<"0", "9">>
  /\ "pid" \in DOMAIN arg
  /\ arg.pid = <<"0", "C">>
  /\ ret = << >>

\* a stored-DTC Response decoded by tryDecodeDtcResponse
C29_WitnessDtc ==
  /\ fn = "tryDecodeDtcResponse"
  /\ arg = [service |-> <<"0", "A">>, data |-> <<1, 65>>]
  /\ ret = <<decodeDtcs(<<1, 65>>)>>
  /\ ret # << >>

\* -------------------------------------------------------------------------
\* Readiness (Mode 01 PID 01)
\* -------------------------------------------------------------------------
L_Compression == <<"c", "o", "m", "p", "r", "e", "s", "s", "i", "o", "n">>
L_Spark == <<"s", "p", "a", "r", "k">>

\* decodeReadiness0101 with the whole byte A as the count
decodeReadiness0101CountAll(bytes) ==
  IF Len(bytes) < 4 THEN << >>
  ELSE <<[milOn |-> BitAnd(bytes[1], 128) # 0,
          dtcCount |-> bytes[1],
          ignitionType |-> IF BitAnd(bytes[2], 8) # 0 THEN L_Compression ELSE L_Spark,
          raw |-> SubSeq(bytes, 1, 4)]>>

\* the result is an option: << >> for null
decodeReadiness0101(bytes) ==
  IF Len(bytes) < 4 THEN << >>
  ELSE <<[milOn |-> BitAnd(bytes[1], 128) # 0,
          dtcCount |-> BitAnd(bytes[1], 127),
          ignitionType |-> IF BitAnd(bytes[2], 8) # 0 THEN L_Compression ELSE L_Spark,
          raw |-> SubSeq(bytes, 1, 4)]>>

\* bytes with each bit pattern of interest: MIL bit, count bits, ignition bit
ReadinessSample == {0, 8, 136, 255}

\* every byte A and every byte B in a 4-byte frame, and sampled frames of up to
\* n bytes
ReadinessInputs(n) ==
  { <<a, b, 7, 229>> : a \in Byte, b \in {0, 8} }
    \cup { <<a, b, 7, 229>> : a \in {3, 131}, b \in Byte }
    \cup SeqsOf(ReadinessSample, 0, n)

CallDecodeReadiness0101 ==
  /\ pc = "idle"
  /\ \E bytes \in ReadinessInputs(MaxReadinessLen) :
       /\ fn' = "decodeReadiness0101"
       /\ arg' = bytes
       /\ ret' = decodeReadiness0101(bytes)
  /\ pc' = "returned"
  /\ UNCHANGED <<calls, pidDecoders, ioVars>>

NextReadiness == CallDecodeReadiness0101 \/ Return

SpecReadiness == Init /\ [][NextReadiness]_vars

\* bit k of the byte n is set
BitSet(n, k) == (n \div Pow2(k)) % 2 = 1

\* C30: decodeReadiness0101 returns null when given fewer than 4 bytes;
\* otherwise, with A and B the first two bytes, milOn is true iff bit 7 of A is
\* set, dtcCount = A & 0x7F (always in 0..127), ignitionType is "compression"
\* iff bit 3 of B is set and "spark" otherwise, and raw holds exactly the first
\* 4 input bytes in order.
C30_Readiness ==
  fn = "decodeReadiness0101" =>
    IF Len(arg) < 4 THEN ret = << >>
    ELSE /\ Len(ret) = 1
         /\ ret[1].milOn = BitSet(arg[1], 7)
         /\ ret[1].dtcCount = arg[1] % 128
         /\ ret[1].dtcCount \in 0 .. 127
         /\ ret[1].ignitionType = (IF BitSet(arg[2], 3) THEN L_Compression ELSE L_Spark)
         /\ ret[1].ignitionType \in {L_Compression, L_Spark}
         /\ Len(ret[1].raw) = 4
         /\ \A i \in 1 .. 4 : ret[1].raw[i] = arg[i]

\* MIL on with 3 codes on a spark engine, from a frame of 5 bytes
C30_Witness ==
  /\ fn = "decodeReadiness0101"
  /\ arg = <<136, 0, 255, 8, 8>>
  /\ ret = <<[milOn |-> TRUE, dtcCount |-> 8, ignitionType |-> L_Spark,
              raw |-> <<136, 0, 255, 8>>]>>

\* three bytes give null
C30_WitnessNull ==
  /\ fn = "decodeReadiness0101"
  /\ arg = <<136, 8, 255>>
  /\ ret = << >>

\* a compression-ignition frame with the MIL off
C30_WitnessCompression ==
  /\ fn = "decodeReadiness0101"
  /\ arg = <<3, 8, 7, 229>>
  /\ ret[1].milOn = FALSE
  /\ ret[1].dtcCount = 3
  /\ ret[1].ignitionType = L_Compression

\* -------------------------------------------------------------------------
\* All the helpers under one caller
\* -------------------------------------------------------------------------
Next ==
  \/ CallParseElmLines
  \/ CallDecodeDtcs
  \/ CallDecode
  \/ CallDecodeVin
  \/ CallDecodeMode06
  \/ CallUdsDecodeDid
  \/ CallReqMode01
  \/ CallReqMode03
  \/ CallReqMode04
  \/ CallReqMode09
  \/ CallUdsBuildReadDid
  \/ CallRoundTrip
  \/ CallExtractCanId
  \/ SendStartAny
  \/ OnData
  \/ TickPromptAny
  \/ TickTimeoutAny
  \/ CollectAny
  \/ OnClose
  \/ UdsCallAny
  \/ UdsSendHeader
  \/ UdsReadDid
  \/ UdsRestore
  \/ UdsCollect
  \/ CallTryDecodePidResponse
  \/ CallTryDecodeDtcResponse
  \/ CallTryDecodeVin
  \/ CallDecodeReadiness0101
  \/ Return
  \/ InvokeAny
  \/ CompleteAny

Spec == Init /\ [][Next]_vars

====
